---- MODULE Spec2Model ----
(***************************************************************************)
(* Model of the scoped symbol table of the Mycelium scripting compiler     *)
(* (src/src/semantic/symbol_table.cpp): the scope graph, the build cursor, *)
(* the navigation stack, name lookup and the iterative type resolver.      *)
(*                                                                         *)
(* Conventions.  Scope ids are 0-based as in the code; all_scopes is a     *)
(* TLA+ sequence, so scope id i is all_scopes[i + 1].  A scope name is a   *)
(* sequence of identifiers joined by "::" ( <<"T", "f">> is "T::f" ), so   *)
(* that find("::") and substr(0, find("::")) are computed, not assumed.    *)
(* A symbol map is a function whose domain is the set of declared names.   *)
(***************************************************************************)
EXTENDS Integers, Sequences, FiniteSets, TLC

VARIABLES all_scopes, scope_name_to_id, next_scope_id, building_scope_level,
          active_scope_stack, last,
          commands_, next_id_, ignore_writes_

vars == <<all_scopes, scope_name_to_id, next_scope_id, building_scope_level,
          active_scope_stack, last, commands_, next_id_, ignore_writes_>>

\* The IR builder (src/src/codegen/ir_builder.cpp) is an object of its own:
\* the operations of the symbol table leave it alone, and its operations
\* leave the symbol table alone.
IRBuilderIdle == UNCHANGED <<commands_, next_id_, ignore_writes_>>

SymbolTableIdle ==
  UNCHANGED <<all_scopes, scope_name_to_id, next_scope_id, building_scope_level,
              active_scope_stack>>

(***************************************************************************)
(* Bounds of the model.                                                    *)
(***************************************************************************)
MaxScopes == 3
MaxSymbols == 3
MaxGraph == 4
MaxStack == 2

(***************************************************************************)
(* Input alphabets.                                                        *)
(***************************************************************************)
Names == {"a", "b"}

GlobalName == <<"global">>

AnonAtoms == <<"scope_1", "scope_2", "scope_3", "scope_4", "scope_5">>

\* "scope_" + std::to_string(n)
AnonName(n) == <<AnonAtoms[n]>>

NamedScopes == {<<"T">>, <<"T", "f">>}

PushNames == NamedScopes \cup {GlobalName, AnonName(1), <<"missing">>}

(***************************************************************************)
(* IR types, expressions and symbols.                                      *)
(***************************************************************************)
IRType(tag) == [tag |-> tag]

IRStruct(name, fields) == [tag |-> "struct", name |-> name, fields |-> fields]

Throw == [tag |-> "throw"]

nullptr == [name |-> "nullptr"]

NullExpr == [k |-> "null", v |-> "", kids |-> <<>>]

Lit(kind) == [k |-> "lit", v |-> kind, kids |-> <<>>]

Id(n) == [k |-> "id", v |-> n, kids |-> <<>>]

Bin(op, l, r) == [k |-> "bin", v |-> op, kids |-> <<l, r>>]

Un(op, e) == [k |-> "un", v |-> op, kids |-> <<e>>]

Call(f, args) == [k |-> "call", v |-> f, kids |-> args]

MemberCall(target, m, args) == [k |-> "mcall", v |-> m, kids |-> <<target>> \o args]

Assign(src) == [k |-> "assign", v |-> "", kids |-> <<src>>]

New(t, args) == [k |-> "new", v |-> t, kids |-> args]

Member(target, f) == [k |-> "member", v |-> f, kids |-> <<target>>]

Symbol(name, type, data_type, type_name, scope_level, state, init, deps) ==
  [name |-> name, type |-> type, data_type |-> data_type, type_name |-> type_name,
   scope_level |-> scope_level, resolution_state |-> state,
   initializer_expression |-> init, dependencies |-> deps]

\* The parent link left at its default.
Scope_DefaultParent(scope_name, parent_scope_id) ==
  [scope_name |-> scope_name, parent_scope_id |-> -1, symbols |-> <<>>]

Scope(scope_name, parent_scope_id) ==
  [scope_name |-> scope_name, parent_scope_id |-> parent_scope_id, symbols |-> <<>>]

\* What the builder passes to declare_symbol: kind, IR type, type spelling.
DeclInputs ==
  { [type |-> "VARIABLE", data_type |-> IRType("i32"), type_name |-> "i32"],
    [type |-> "FUNCTION", data_type |-> IRType("bool"), type_name |-> "bool"] }

\* Initializers of inferred declarations: var x; var x = 3; var x = a;
\* var x = b; var x = 1 + b;
InitExprs == { NullExpr, Lit("Integer"), Id("a"), Id("b"), Bin("Add", Lit("Integer"), Id("b")) }

(***************************************************************************)
(* Helpers over a scope sequence S.                                        *)
(***************************************************************************)
ScopeIds(S) == 0 .. (Len(S) - 1)

SymbolsOf(S, id) == S[id + 1].symbols

Has(S, id, name) == name \in DOMAIN SymbolsOf(S, id)

SymbolCount(S) ==
  LET RECURSIVE cnt(_)
      cnt(i) == IF i > Len(S) THEN 0 ELSE Cardinality(DOMAIN S[i].symbols) + cnt(i + 1)
  IN cnt(1)

\* Scopes created after the global one, plus symbols.
GraphSize(S) == (Len(S) - 1) + SymbolCount(S)

WithinBounds(S) ==
  /\ Len(S) <= MaxScopes
  /\ SymbolCount(S) <= MaxSymbols
  /\ GraphSize(S) <= MaxGraph

\* The symbol stored in the scope on top of the navigation stack.
Insert_AtNavigationTop(S, id, name, sym) ==
  [S EXCEPT ![active_scope_stack[Len(active_scope_stack)] + 1].symbols =
     [n \in (DOMAIN @) \cup {name} |-> IF n = name THEN sym ELSE @[n]]]

Insert(S, id, name, sym) ==
  [S EXCEPT ![id + 1].symbols =
     [n \in (DOMAIN @) \cup {name} |-> IF n = name THEN sym ELSE @[n]]]

\* The record of the last call: its name, its symbol-name argument, its
\* result (ok for bool, id for int), the resolver's pass and cycle-report
\* counts, and in before what the call started from: for push_scope the
\* stack it was called on, for enter_scope and enter_named_scope the build
\* cursor it was called on.  pop_scope keeps the id and stack of a
\* push_scope that it directly follows, exit_scope the id and cursor of an
\* enter call that it directly follows, and resolve_all_types records the
\* pass count of a successful resolve_all_types that it directly follows
\* and clear the next_scope_id it was called on (before is the empty
\* sequence in every other record).  tr is the set of
\* <<from, to>> resolution-state assignments that a resolver call made, ir
\* the IR type that string_to_ir_type returned (Throw for the exception).

Done(op, name, ok, id) ==
  [op |-> op, name |-> name, ok |-> ok, id |-> id, iters |-> 0, cyc |-> 0,
   before |-> <<>>, tr |-> {}, ir |-> nullptr]

(***************************************************************************)
(* Query API.                                                              *)
(***************************************************************************)
find_scope_by_name(scope_name) ==
  IF scope_name \in DOMAIN scope_name_to_id THEN scope_name_to_id[scope_name] ELSE -1

get_current_scope_id ==
  IF active_scope_stack = <<>> THEN -1 ELSE active_scope_stack[Len(active_scope_stack)]

lookup_symbol_current_scope(S, name) ==
  IF active_scope_stack = <<>> THEN nullptr
  ELSE LET current_scope == active_scope_stack[Len(active_scope_stack)]
       IN IF Has(S, current_scope, name) THEN SymbolsOf(S, current_scope)[name]
          ELSE nullptr

symbol_exists_current_scope(S, name) == lookup_symbol_current_scope(S, name) # nullptr

lookup_symbol_in_scope(S, scope_id, name) ==
  IF scope_id < 0 \/ scope_id >= Len(S) THEN nullptr
  ELSE IF Has(S, scope_id, name) THEN SymbolsOf(S, scope_id)[name] ELSE nullptr

\* The kind of the symbol found in the type scope not tested.
MemberFallback_AnyKind(S, scope_id, name) ==
  LET scope_name == S[scope_id + 1].scope_name
  IN IF Len(scope_name) > 1
     THEN LET type_scope_id == find_scope_by_name(<<scope_name[1]>>)
          IN IF type_scope_id # -1 /\ Has(S, type_scope_id, name)
             THEN SymbolsOf(S, type_scope_id)[name]
             ELSE nullptr
     ELSE nullptr

\* The member-function branch of lookup_symbol, taken for the top of the stack.
MemberFallback(S, scope_id, name) ==
  LET scope_name == S[scope_id + 1].scope_name
  IN IF Len(scope_name) > 1
     THEN LET type_scope_id == find_scope_by_name(<<scope_name[1]>>)
          IN IF /\ type_scope_id # -1
                /\ Has(S, type_scope_id, name)
                /\ SymbolsOf(S, type_scope_id)[name].type = "VARIABLE"
             THEN SymbolsOf(S, type_scope_id)[name]
             ELSE nullptr
     ELSE nullptr

\* The member-function branch consulted only after the whole stack.
lookup_symbol_FallbackLast(S, name) ==
  LET top == Len(active_scope_stack)
      RECURSIVE walk(_)
      walk(i) ==
        IF i < 1 THEN MemberFallback(S, active_scope_stack[top], name)
        ELSE IF Has(S, active_scope_stack[i], name)
             THEN SymbolsOf(S, active_scope_stack[i])[name]
             ELSE walk(i - 1)
  IN walk(top)

lookup_symbol(S, name) ==
  LET top == Len(active_scope_stack)
      RECURSIVE walk(_)
      walk(i) ==
        IF i < 1 THEN nullptr
        ELSE LET scope_id == active_scope_stack[i]
             IN IF Has(S, scope_id, name) THEN SymbolsOf(S, scope_id)[name]
                ELSE IF i = top /\ MemberFallback(S, scope_id, name) # nullptr
                     THEN MemberFallback(S, scope_id, name)
                     ELSE walk(i - 1)
  IN walk(top)

lookup_symbol_in_context(S, name, context_scope_id) ==
  LET RECURSIVE walk(_)
      walk(current_scope_id) ==
        IF current_scope_id >= 0 /\ current_scope_id < Len(S)
        THEN IF Has(S, current_scope_id, name)
             THEN SymbolsOf(S, current_scope_id)[name]
             ELSE walk(S[current_scope_id + 1].parent_scope_id)
        ELSE nullptr
  IN walk(context_scope_id)

(***************************************************************************)
(* Construction.                                                           *)
(***************************************************************************)
Init ==
  /\ all_scopes = <<Scope(GlobalName, -1)>>
  /\ scope_name_to_id = (GlobalName :> 0)
  /\ next_scope_id = 1
  /\ building_scope_level = 0
  /\ active_scope_stack = <<0>>
  /\ last = Done("new", "", TRUE, 0)
  /\ commands_ = <<>>
  /\ next_id_ = 1
  /\ ignore_writes_ = FALSE

(***************************************************************************)
(* Building phase API.                                                     *)
(***************************************************************************)
\* An existing index entry kept (emplace instead of operator[]).
EnterNamed_KeepsFirstEntry(scope_name) ==
  /\ all_scopes' = Append(all_scopes, Scope(scope_name, building_scope_level))
  /\ scope_name_to_id' =
       [n \in (DOMAIN scope_name_to_id) \cup {scope_name} |->
          IF n \in DOMAIN scope_name_to_id THEN scope_name_to_id[n] ELSE next_scope_id]
  /\ building_scope_level' = next_scope_id
  /\ next_scope_id' = next_scope_id + 1

EnterNamed(scope_name) ==
  /\ all_scopes' = Append(all_scopes, Scope(scope_name, building_scope_level))
  /\ scope_name_to_id' =
       [n \in (DOMAIN scope_name_to_id) \cup {scope_name} |->
          IF n = scope_name THEN next_scope_id ELSE scope_name_to_id[n]]
  /\ building_scope_level' = next_scope_id
  /\ next_scope_id' = next_scope_id + 1

enter_scope ==
  /\ WithinBounds(Append(all_scopes, Scope(GlobalName, 0)))
  /\ EnterNamed(AnonName(next_scope_id))
  /\ last' = [Done("enter_scope", "", TRUE, next_scope_id) EXCEPT
                !.before = <<building_scope_level>>]
  /\ UNCHANGED active_scope_stack

enter_named_scope(scope_name) ==
  /\ WithinBounds(Append(all_scopes, Scope(GlobalName, 0)))
  /\ EnterNamed(scope_name)
  /\ last' = [Done("enter_named_scope", "", TRUE, next_scope_id) EXCEPT
                !.before = <<building_scope_level>>]
  /\ UNCHANGED active_scope_stack

EnterOps == {"enter_scope", "enter_named_scope"}

\* The cursor moved to the root instead of the parent.
ExitResult_ToGlobal(level) == 0

\* if (building_scope_level > 0) building_scope_level = parent_scope_id
ExitResult(level) ==
  IF level > 0 THEN all_scopes[level + 1].parent_scope_id ELSE level

exit_scope ==
  /\ building_scope_level' = ExitResult(building_scope_level)
  /\ last' = IF last.op \in EnterOps
             THEN [Done("exit_scope", "", TRUE, last.id) EXCEPT !.before = last.before]
             ELSE Done("exit_scope", "", TRUE, -1)
  /\ UNCHANGED <<all_scopes, scope_name_to_id, next_scope_id, active_scope_stack>>

\* The graph after declare_symbol(name, ...): unchanged when the call fails.
DeclareResult(name, sym) ==
  IF symbol_exists_current_scope(all_scopes, name) THEN all_scopes
  ELSE Insert(all_scopes, building_scope_level, name, sym)

declare_symbol(name, d) ==
  LET sym == Symbol(name, d.type, d.data_type, d.type_name, building_scope_level,
                    "RESOLVED", NullExpr, <<>>)
  IN /\ WithinBounds(DeclareResult(name, sym))
     /\ all_scopes' = DeclareResult(name, sym)
     /\ last' = Done("declare_symbol", name,
                     ~symbol_exists_current_scope(all_scopes, name), 0)
     /\ UNCHANGED <<scope_name_to_id, next_scope_id, building_scope_level,
                    active_scope_stack>>


(***************************************************************************)
(* Dependency extraction and expression typing.                            *)
(***************************************************************************)
RECURSIVE extract_dependencies(_)
RECURSIVE ConcatDeps(_, _)

\* dependencies.insert(end, ...) over the expressions es[i..]
ConcatDeps(es, i) ==
  IF i > Len(es) THEN <<>> ELSE extract_dependencies(es[i]) \o ConcatDeps(es, i + 1)

extract_dependencies(expr) ==
  CASE expr.k = "null" -> <<>>
    [] expr.k = "id" -> <<expr.v>>
    [] expr.k = "bin" -> ConcatDeps(expr.kids, 1)
    [] expr.k = "un" -> extract_dependencies(expr.kids[1])
    [] expr.k = "call" -> <<expr.v>> \o ConcatDeps(expr.kids, 1)
    [] expr.k = "mcall" -> ConcatDeps(expr.kids, 1)
    [] expr.k = "assign" -> extract_dependencies(expr.kids[1])
    [] expr.k = "new" -> <<expr.v>> \o ConcatDeps(expr.kids, 1)
    [] expr.k = "member" -> extract_dependencies(expr.kids[1])
    [] OTHER -> <<>>

ComparisonOps ==
  {"LessThan", "LessThanOrEqual", "GreaterThan", "GreaterThanOrEqual", "Equals",
   "NotEquals", "LogicalAnd", "LogicalOr"}

LiteralType(kind) ==
  CASE kind = "Integer" -> "i32"
    [] kind = "Boolean" -> "bool"
    [] kind = "String" -> "string"
    [] kind = "Float" -> "f32"
    [] OTHER -> "unresolved"

RECURSIVE infer_type_from_expression_in_context(_, _, _)

infer_type_from_expression_in_context(S, expr, context_scope_id) ==
  CASE expr.k = "null" -> "void"
    [] expr.k = "lit" -> LiteralType(expr.v)
    [] expr.k = "bin" ->
         IF expr.v \in ComparisonOps THEN "bool"
         ELSE LET left_type ==
                    infer_type_from_expression_in_context(S, expr.kids[1], context_scope_id)
              IN IF left_type # "unresolved" THEN left_type
                 ELSE infer_type_from_expression_in_context(S, expr.kids[2], context_scope_id)
    [] expr.k = "un" ->
         IF expr.v = "Not" THEN "bool"
         ELSE IF expr.v \in {"Minus", "Plus"}
              THEN infer_type_from_expression_in_context(S, expr.kids[1], context_scope_id)
              ELSE "unresolved"
    [] expr.k = "id" ->
         LET symbol == lookup_symbol_in_context(S, expr.v, context_scope_id)
         IN IF symbol # nullptr /\ symbol.resolution_state = "RESOLVED"
            THEN symbol.type_name ELSE "unresolved"
    [] expr.k = "call" ->
         LET symbol == lookup_symbol_in_context(S, expr.v, context_scope_id)
         IN IF /\ symbol # nullptr
               /\ symbol.type = "FUNCTION"
               /\ symbol.resolution_state = "RESOLVED"
            THEN symbol.type_name ELSE "unresolved"
    [] expr.k \in {"mcall", "member"} ->
         LET target_type ==
               infer_type_from_expression_in_context(S, expr.kids[1], context_scope_id)
             type_scope_id == find_scope_by_name(<<target_type>>)
             member_symbol == lookup_symbol_in_scope(S, type_scope_id, expr.v)
         IN IF target_type = "unresolved" \/ type_scope_id = -1 \/ member_symbol = nullptr
            THEN "unresolved"
            ELSE IF /\ member_symbol.resolution_state = "RESOLVED"
                    /\ (expr.k = "mcall" => member_symbol.type = "FUNCTION")
                 THEN member_symbol.type_name ELSE "unresolved"
    [] expr.k = "assign" ->
         infer_type_from_expression_in_context(S, expr.kids[1], context_scope_id)
    [] expr.k = "new" ->
         LET symbol == lookup_symbol_in_context(S, expr.v, context_scope_id)
         IN IF symbol # nullptr /\ symbol.type \in {"CLASS", "ENUM"}
            THEN expr.v ELSE "unresolved"
    [] OTHER -> "unresolved"

(***************************************************************************)
(* IR type mapper.  ord[i + 1] is the iteration order of the symbol map of *)
(* scope i (the container's order, which the code does not choose).        *)
(***************************************************************************)
ArrayTypeNames == {"i32[]", "T[]"}

PrimitiveTypeNames == {"i32", "i64", "i8", "i16", "bool", "f32", "f64", "void", "ptr"}

get_all_symbols_in_scope(S, ord, scope_id) ==
  IF scope_id < 0 \/ scope_id >= Len(S) THEN <<>>
  ELSE [i \in 1 .. Len(ord[scope_id + 1]) |-> SymbolsOf(S, scope_id)[ord[scope_id + 1][i]]]

StructFields(symbols) ==
  LET RECURSIVE collect(_)
      collect(i) ==
        IF i > Len(symbols) THEN <<>>
        ELSE IF symbols[i].type = "VARIABLE"
             THEN <<[name |-> symbols[i].name, type |-> symbols[i].data_type]>>
                  \o collect(i + 1)
             ELSE collect(i + 1)
  IN collect(1)

string_to_ir_type(S, ord, type_str) ==
  IF type_str \in ArrayTypeNames THEN IRType("ptr")
  ELSE IF type_str \in PrimitiveTypeNames THEN IRType(type_str)
  ELSE IF type_str = "string" THEN IRType("ptr")
  ELSE LET symbol == lookup_symbol(S, type_str)
       IN IF symbol # nullptr /\ symbol.type = "CLASS"
          THEN LET struct_scope_id == find_scope_by_name(<<type_str>>)
               IN IF struct_scope_id # -1
                  THEN IRStruct(type_str,
                                StructFields(get_all_symbols_in_scope(S, ord, struct_scope_id)))
                  ELSE IRType("ptr")
          ELSE IF symbol # nullptr /\ symbol.type = "ENUM" THEN IRType("i32")
          ELSE Throw


(***************************************************************************)
(* Type resolution.  The resolver mutates symbols in place, so each step   *)
(* takes the scope sequence S and returns the updated one with its result: *)
(* [S, ret, cyc, tr], cyc counting the "Circular dependency detected"      *)
(* reports and tr collecting the <<from, to>> pairs of the resolution      *)
(* states it assigned.                                                     *)
(***************************************************************************)
max_iterations == 10

SetState(S, id, name, state) ==
  [S EXCEPT ![id + 1].symbols[name].resolution_state = state]

\* A failure path that leaves the symbol marked as being resolved.
MarkUnresolved_Forgotten(S, id, name) == S

\* symbol->resolution_state = UNRESOLVED on each failure path.
MarkUnresolved(S, id, name) == SetState(S, id, name, "UNRESOLVED")

\* The initializer dropped once the type is known.
SetResolved_DropsInitializer(S, id, name, data_type, type_name) ==
  [S EXCEPT ![id + 1].symbols[name].data_type = data_type,
            ![id + 1].symbols[name].type_name = type_name,
            ![id + 1].symbols[name].resolution_state = "RESOLVED",
            ![id + 1].symbols[name].initializer_expression = NullExpr]

SetResolved(S, id, name, data_type, type_name) ==
  [S EXCEPT ![id + 1].symbols[name].data_type = data_type,
            ![id + 1].symbols[name].type_name = type_name,
            ![id + 1].symbols[name].resolution_state = "RESOLVED"]

\* The first scope, in id order, whose map holds name; -1 if none does.
FindSymbolScope(S, name) ==
  LET RECURSIVE find(_)
      find(scope_id) ==
        IF scope_id >= Len(S) THEN -1
        ELSE IF Has(S, scope_id, name) THEN scope_id ELSE find(scope_id + 1)
  IN find(0)

\* The early return left out.
AlreadyResolved_Never(symbol) == FALSE

\* if (symbol->resolution_state == TypeResolutionState::RESOLVED) return true;
AlreadyResolved(symbol) == symbol.resolution_state = "RESOLVED"

\* The assignment of state to the symbol name of scope id, as a pair.
Transition(S, id, name, state) ==
  <<SymbolsOf(S, id)[name].resolution_state, state>>

RECURSIVE resolve_symbol_type(_, _, _)
RECURSIVE ResolveDependencies(_, _, _, _, _)

resolve_symbol_type_in_context(S, ord, name, context_scope_id) ==
  resolve_symbol_type(S, ord, name)

\* The loop over symbol->dependencies, from position i, with cyc reports so far.
ResolveDependencies(S, ord, deps, symbol_scope_id, i) ==
  IF i > Len(deps) THEN [S |-> S, ret |-> TRUE, cyc |-> 0, tr |-> {}]
  ELSE LET r == resolve_symbol_type_in_context(S, ord, deps[i], symbol_scope_id)
       IN IF ~r.ret THEN r
          ELSE LET rest == ResolveDependencies(r.S, ord, deps, symbol_scope_id, i + 1)
               IN [rest EXCEPT !.cyc = @ + r.cyc, !.tr = @ \cup r.tr]

resolve_symbol_type(S, ord, name) ==
  LET symbol_scope_id == FindSymbolScope(S, name)
  IN IF symbol_scope_id = -1 THEN [S |-> S, ret |-> FALSE, cyc |-> 0, tr |-> {}]
     ELSE
       LET symbol == SymbolsOf(S, symbol_scope_id)[name]
       IN IF AlreadyResolved(symbol) THEN [S |-> S, ret |-> TRUE, cyc |-> 0, tr |-> {}]
          ELSE IF symbol.resolution_state = "RESOLVING"
               THEN [S |-> S, ret |-> FALSE, cyc |-> 1, tr |-> {}]
          ELSE
            LET d == ResolveDependencies(SetState(S, symbol_scope_id, name, "RESOLVING"),
                                         ord, symbol.dependencies, symbol_scope_id, 1)
                began == {Transition(S, symbol_scope_id, name, "RESOLVING")}
                failed == [S |-> MarkUnresolved(d.S, symbol_scope_id, name),
                           ret |-> FALSE, cyc |-> d.cyc,
                           tr |-> began \cup d.tr \cup
                                  {Transition(d.S, symbol_scope_id, name, "UNRESOLVED")}]
            IN IF ~d.ret THEN failed
               ELSE IF symbol.initializer_expression = NullExpr THEN failed
               ELSE
                 LET inferred_type ==
                       infer_type_from_expression_in_context(
                         d.S, symbol.initializer_expression, symbol_scope_id)
                     data_type == string_to_ir_type(d.S, ord, inferred_type)
                 IN IF inferred_type = "unresolved" \/ data_type = Throw THEN failed
                    ELSE [S |-> SetResolved(d.S, symbol_scope_id, name, data_type,
                                            inferred_type),
                          ret |-> TRUE, cyc |-> d.cyc,
                          tr |-> began \cup d.tr \cup
                                 {Transition(d.S, symbol_scope_id, name, "RESOLVED")}]

\* for (scope : all_scopes) for ([name, symbol] : scope.symbols), as a list of
\* <<scope id, name>> in iteration order.
Visits(S, ord) ==
  LET RECURSIVE flat(_)
      flat(i) ==
        IF i > Len(S) THEN <<>>
        ELSE [j \in 1 .. Len(ord[i]) |-> <<i - 1, ord[i][j]>>] \o flat(i + 1)
  IN flat(1)

AnyUnresolved(S) ==
  \E id \in ScopeIds(S) : \E n \in DOMAIN SymbolsOf(S, id) :
    SymbolsOf(S, id)[n].resolution_state = "UNRESOLVED"

\* Success reported only by a call in which some pass made progress.
LoopResult_ProgressRequired(S, iteration) ==
  IF iteration >= max_iterations \/ iteration <= 1 THEN FALSE ELSE ~AnyUnresolved(S)

\* if (iteration >= max_iterations) return false; return all_resolved;
LoopResult(S, iteration) ==
  IF iteration >= max_iterations THEN FALSE ELSE ~AnyUnresolved(S)

\* One pass more than the bound allows.
LoopContinues_OnePassMore(progress, iteration) ==
  progress /\ iteration <= max_iterations

\* while (progress && iteration < max_iterations)
LoopContinues(progress, iteration) == progress /\ iteration < max_iterations

RECURSIVE ResolvePass(_, _, _, _, _, _, _)
RECURSIVE ResolveLoop(_, _, _, _, _, _, _)

\* The rest of a pass after resolve_symbol_type returned r for visits[j].
PassAfter(r, ord, visits, j, progress, cyc, tr) ==
  ResolvePass(r.S, ord, visits, j + 1, progress \/ r.ret, cyc + r.cyc, tr \cup r.tr)

\* One pass of the two for loops, from visits[j] on: [S, progress, cyc, tr].
ResolvePass(S, ord, visits, j, progress, cyc, tr) ==
  IF j > Len(visits) THEN [S |-> S, progress |-> progress, cyc |-> cyc, tr |-> tr]
  ELSE IF SymbolsOf(S, visits[j][1])[visits[j][2]].resolution_state = "UNRESOLVED"
       THEN PassAfter(resolve_symbol_type(S, ord, visits[j][2]), ord, visits, j,
                      progress, cyc, tr)
       ELSE ResolvePass(S, ord, visits, j + 1, progress, cyc, tr)

\* The rest of the while loop after a pass returned r.
LoopAfter(r, ord, visits, iteration) ==
  ResolveLoop(r.S, ord, visits, r.progress, iteration, r.cyc, r.tr)

\* while (progress && iteration < max_iterations), then the final check.
ResolveLoop(S, ord, visits, progress, iteration, cyc, tr) ==
  IF LoopContinues(progress, iteration)
  THEN LoopAfter(ResolvePass(S, ord, visits, 1, FALSE, cyc, tr), ord, visits,
                 iteration + 1)
  ELSE [S |-> S, iters |-> iteration, cyc |-> cyc, tr |-> tr,
        ret |-> LoopResult(S, iteration)]

resolve_all_types(S, ord) == ResolveLoop(S, ord, Visits(S, ord), TRUE, 0, 0, {})

\* The iteration orders the symbol maps can have: one permutation of its
\* keys for each scope.
Perms(set) ==
  { p \in [1 .. Cardinality(set) -> set] : \A i, j \in DOMAIN p : i # j => p[i] # p[j] }

RECURSIVE OrdersUpTo(_, _)

OrdersUpTo(S, n) ==
  IF n = 0 THEN {<<>>}
  ELSE { Append(ord, p) : ord \in OrdersUpTo(S, n - 1), p \in Perms(DOMAIN S[n].symbols) }

Orders(S) == OrdersUpTo(S, Len(S))


DeclareUnresolvedResult(name, sym) ==
  IF symbol_exists_current_scope(all_scopes, name) THEN all_scopes
  ELSE Insert(all_scopes, building_scope_level, name, sym)

declare_unresolved_symbol(name, initializer) ==
  LET sym == Symbol(name, "VARIABLE", IRType("i32"), "unresolved", building_scope_level,
                    "UNRESOLVED", initializer, extract_dependencies(initializer))
  IN /\ WithinBounds(DeclareUnresolvedResult(name, sym))
     /\ all_scopes' = DeclareUnresolvedResult(name, sym)
     /\ last' = Done("declare_unresolved_symbol", name,
                     ~symbol_exists_current_scope(all_scopes, name), 0)
     /\ UNCHANGED <<scope_name_to_id, next_scope_id, building_scope_level,
                    active_scope_stack>>

(***************************************************************************)
(* Navigation API.                                                         *)
(***************************************************************************)
\* The id pushed whether or not the scope was found.
PushResult_Unconditional(id) == Append(active_scope_stack, id)

PushResult(id) == IF id # -1 THEN Append(active_scope_stack, id) ELSE active_scope_stack

push_scope_name(scope_name) ==
  LET id == find_scope_by_name(scope_name)
  IN /\ Len(PushResult(id)) <= MaxStack
     /\ active_scope_stack' = PushResult(id)
     /\ last' = [Done("push_scope", "", id # -1, id) EXCEPT !.before = active_scope_stack]
     /\ UNCHANGED <<all_scopes, scope_name_to_id, next_scope_id, building_scope_level>>

\* The range check left out.
CheckedScopeId_Unchecked(scope_id) == scope_id

\* if (scope_id >= 0 && scope_id < all_scopes.size())
CheckedScopeId(scope_id) ==
  IF scope_id >= 0 /\ scope_id < Len(all_scopes) THEN scope_id ELSE -1

push_scope_id(scope_id) ==
  LET id == CheckedScopeId(scope_id)
  IN /\ Len(PushResult(id)) <= MaxStack
     /\ active_scope_stack' = PushResult(id)
     /\ last' = [Done("push_scope", "", id # -1, id) EXCEPT !.before = active_scope_stack]
     /\ UNCHANGED <<all_scopes, scope_name_to_id, next_scope_id, building_scope_level>>

\* The size test off by one.
PopResult_OffByOne(stack) ==
  IF Len(stack) > 2 THEN SubSeq(stack, 1, Len(stack) - 1) ELSE stack

\* if (active_scope_stack.size() > 1) active_scope_stack.pop_back();
PopResult(stack) ==
  IF Len(stack) > 1 THEN SubSeq(stack, 1, Len(stack) - 1) ELSE stack

pop_scope ==
  /\ active_scope_stack' = PopResult(active_scope_stack)
  /\ last' = IF last.op = "push_scope"
             THEN [Done("pop_scope", "", TRUE, last.id) EXCEPT !.before = last.before]
             ELSE Done("pop_scope", "", TRUE, -1)
  /\ UNCHANGED <<all_scopes, scope_name_to_id, next_scope_id, building_scope_level>>

reset_navigation ==
  /\ active_scope_stack' = <<0>>
  /\ last' = Done("reset_navigation", "", TRUE, 0)
  /\ UNCHANGED <<all_scopes, scope_name_to_id, next_scope_id, building_scope_level>>

\* The name index and the id counter left as they were.
clear_GraphOnly ==
  /\ all_scopes' = <<Scope(GlobalName, -1)>>
  /\ active_scope_stack' = <<0>>
  /\ building_scope_level' = 0
  /\ last' = [Done("clear", "", TRUE, 0) EXCEPT !.before = <<next_scope_id>>]
  /\ UNCHANGED <<scope_name_to_id, next_scope_id>>

clear ==
  /\ all_scopes' = <<Scope(GlobalName, -1)>>
  /\ scope_name_to_id' = (GlobalName :> 0)
  /\ active_scope_stack' = <<0>>
  /\ building_scope_level' = 0
  /\ next_scope_id' = 1
  /\ last' = [Done("clear", "", TRUE, 0) EXCEPT !.before = <<next_scope_id>>]

(***************************************************************************)
(* Type resolution API.                                                    *)
(***************************************************************************)
\* resolve_all_types() on maps that iterate in the orders ord.
ResolveAllWith(ord) ==
  LET r == resolve_all_types(all_scopes, ord)
  IN /\ all_scopes' = r.S
     /\ last' = [Done("resolve_all_types", "", r.ret, 0) EXCEPT
                   !.iters = r.iters, !.cyc = r.cyc, !.tr = r.tr,
                   !.before = IF last.op = "resolve_all_types" /\ last.ok
                              THEN <<last.iters>> ELSE <<>>]
     /\ UNCHANGED <<scope_name_to_id, next_scope_id, building_scope_level,
                    active_scope_stack>>

call_resolve_all_types == \E ord \in Orders(all_scopes) : ResolveAllWith(ord)

call_resolve_symbol_type(name) ==
  \E ord \in Orders(all_scopes) :
    LET r == resolve_symbol_type(all_scopes, ord, name)
    IN /\ all_scopes' = r.S
       /\ last' = [Done("resolve_symbol_type", name, r.ret, 0) EXCEPT
                     !.cyc = r.cyc, !.tr = r.tr]
       /\ UNCHANGED <<scope_name_to_id, next_scope_id, building_scope_level,
                      active_scope_stack>>

(***************************************************************************)
(* Spec: the build and resolve phases, as build_symbol_table drives them   *)
(* (the navigation stack stays at the global scope), in any order.         *)
(***************************************************************************)
Next ==
  \/ enter_scope /\ IRBuilderIdle
  \/ exit_scope /\ IRBuilderIdle
  \/ \E name \in Names : \E d \in DeclInputs : declare_symbol(name, d) /\ IRBuilderIdle
  \/ \E name \in Names : \E e \in InitExprs : declare_unresolved_symbol(name, e) /\ IRBuilderIdle
  \/ clear /\ IRBuilderIdle
  \/ call_resolve_all_types /\ IRBuilderIdle
  \/ \E name \in Names : call_resolve_symbol_type(name) /\ IRBuilderIdle

Spec == Init /\ [][Next]_vars

(***************************************************************************)
(* SpecNav: building a graph of explicitly typed symbols in anonymous,     *)
(* type and member-function scopes, and navigating it, in any order.       *)
(***************************************************************************)
NextNav ==
  \/ enter_scope /\ IRBuilderIdle
  \/ \E scope_name \in NamedScopes : enter_named_scope(scope_name) /\ IRBuilderIdle
  \/ exit_scope /\ IRBuilderIdle
  \/ \E name \in Names : \E d \in DeclInputs : declare_symbol(name, d) /\ IRBuilderIdle
  \/ \E scope_name \in PushNames : push_scope_name(scope_name) /\ IRBuilderIdle
  \/ \E scope_id \in -1 .. MaxScopes : push_scope_id(scope_id) /\ IRBuilderIdle
  \/ pop_scope /\ IRBuilderIdle
  \/ reset_navigation /\ IRBuilderIdle
  \/ clear /\ IRBuilderIdle

SpecNav == Init /\ [][NextNav]_vars

(***************************************************************************)
(* SpecChain: a type T whose fields are inferred from member accesses on   *)
(* an object o of type T,                                                  *)
(*     type T { var f1 = o.f2; var f2 = o.f3; ... var fn = 3; }  T o;      *)
(* built through the API and resolved.  The field of a member access is    *)
(* not a dependency, so a field whose initializer reads a field that is    *)
(* visited later in the pass waits for the next pass.  Of the iteration    *)
(* orders an unordered map can have, this specification takes the two      *)
(* that follow NameOrder forwards and backwards.                           *)
(***************************************************************************)
MaxChain == 9

FieldNames == <<"f1", "f2", "f3", "f4", "f5", "f6", "f7", "f8", "f9", "f10", "f11">>

NameOrder == <<"o">> \o FieldNames

TypeName == <<"T">>

ObjectDecl == [type |-> "VARIABLE", data_type |-> IRType("ptr"), type_name |-> "T"]

\* var f_k = 3;  or  var f_k = o.f_k+1;
FieldInits(k) == { Lit("Integer"), Member(Id("o"), FieldNames[k + 1]) }

Forwards(set) == SelectSeq(NameOrder, LAMBDA n : n \in set)

Backwards(set) ==
  [i \in 1 .. Len(Forwards(set)) |-> Forwards(set)[Len(Forwards(set)) + 1 - i]]

ChainOrders(S) ==
  { [i \in 1 .. Len(S) |-> Forwards(DOMAIN S[i].symbols)],
    [i \in 1 .. Len(S) |-> Backwards(DOMAIN S[i].symbols)] }

enter_type_scope ==
  /\ Len(all_scopes) = 1
  /\ EnterNamed(TypeName)
  /\ last' = [Done("enter_named_scope", "", TRUE, next_scope_id) EXCEPT
                !.before = <<building_scope_level>>]
  /\ UNCHANGED active_scope_stack

\* T o;  at the global scope
declare_object ==
  LET sym == Symbol("o", ObjectDecl.type, ObjectDecl.data_type, ObjectDecl.type_name,
                    building_scope_level, "RESOLVED", NullExpr, <<>>)
  IN /\ building_scope_level = 0
     /\ all_scopes' = DeclareResult("o", sym)
     /\ last' = Done("declare_symbol", "o", ~symbol_exists_current_scope(all_scopes, "o"), 0)
     /\ UNCHANGED <<scope_name_to_id, next_scope_id, building_scope_level,
                    active_scope_stack>>

\* The next field of T, declared with the cursor in the scope of T.
declare_field(initializer) ==
  LET k == Cardinality(DOMAIN SymbolsOf(all_scopes, building_scope_level)) + 1
      name == FieldNames[k]
      sym == Symbol(name, "VARIABLE", IRType("i32"), "unresolved", building_scope_level,
                    "UNRESOLVED", initializer, extract_dependencies(initializer))
  IN /\ all_scopes[building_scope_level + 1].scope_name = TypeName
     /\ k <= MaxChain
     /\ initializer \in FieldInits(k)
     /\ all_scopes' = DeclareUnresolvedResult(name, sym)
     /\ last' = Done("declare_unresolved_symbol", name,
                     ~symbol_exists_current_scope(all_scopes, name), 0)
     /\ UNCHANGED <<scope_name_to_id, next_scope_id, building_scope_level,
                    active_scope_stack>>

resolve_chain == \E ord \in ChainOrders(all_scopes) : ResolveAllWith(ord)

NextChain ==
  \/ enter_type_scope /\ IRBuilderIdle
  \/ exit_scope /\ IRBuilderIdle
  \/ declare_object /\ IRBuilderIdle
  \/ \E k \in 1 .. MaxChain : \E e \in FieldInits(k) : declare_field(e) /\ IRBuilderIdle
  \/ resolve_chain /\ IRBuilderIdle

SpecChain == Init /\ [][NextChain]_vars

(***************************************************************************)
(* SpecBuild: build_symbol_table.  The builder walks the AST and calls the *)
(* building API for each node, then the resolve phase runs.  The AST is    *)
(* any sequence of well-nested blocks, variable declarations and function  *)
(* declarations (with an empty body and at most one parameter); the        *)
(* builder visits the next node in each step.  last tells where            *)
(* build_symbol_table is: between two nodes (Building), returned (after    *)
(* resolve_all_types), or left by the exception of string_to_ir_type       *)
(* ("runtime_error"), which no handler of the builder catches.             *)
(***************************************************************************)
BuilderOps ==
  {"clear", "visit_variable_declaration", "visit_function_declaration",
   "enter_scope", "exit_scope", "visit_type_declaration",
   "visit_interface_declaration", "visit_enum_declaration",
   "visit_member_function_declaration"}

Building == last.op \in BuilderOps

\* Type spellings of the AST; "" is an absent type node.  No type named Foo
\* is declared.
TypeStrs == {"", "i32", "Foo"}

ParamName == "p"

\* symbol_table.clear() at the start of build_from_ast
build_from_ast ==
  /\ ~Building
  /\ clear

visit_block_statement_enter ==
  /\ Building
  /\ enter_scope

visit_block_statement_exit ==
  /\ Building
  /\ building_scope_level > 0
  /\ exit_scope

\* The exception leaves build_symbol_table; the table stays as it is.
ThrowFrom(name, S, index, next, cursor) ==
  /\ all_scopes' = S
  /\ scope_name_to_id' = index
  /\ next_scope_id' = next
  /\ building_scope_level' = cursor
  /\ last' = Done("runtime_error", name, FALSE, 0)
  /\ UNCHANGED active_scope_stack

visit_variable_declaration(type_str, name, initializer) ==
  /\ Building
  /\ IF type_str # ""
     THEN \E ord \in Orders(all_scopes) :
            LET var_ir_type == string_to_ir_type(all_scopes, ord, type_str)
                sym == Symbol(name, "VARIABLE", var_ir_type, type_str,
                              building_scope_level, "RESOLVED", NullExpr, <<>>)
            IN IF var_ir_type = Throw
               THEN ThrowFrom(name, all_scopes, scope_name_to_id, next_scope_id,
                              building_scope_level)
               ELSE /\ WithinBounds(DeclareResult(name, sym))
                    /\ all_scopes' = DeclareResult(name, sym)
                    /\ last' = Done("visit_variable_declaration", name,
                                    ~symbol_exists_current_scope(all_scopes, name), 0)
                    /\ UNCHANGED <<scope_name_to_id, next_scope_id, building_scope_level,
                                   active_scope_stack>>
     ELSE LET sym == Symbol(name, "VARIABLE", IRType("i32"), "unresolved",
                            building_scope_level, "UNRESOLVED", initializer,
                            extract_dependencies(initializer))
          IN /\ WithinBounds(DeclareUnresolvedResult(name, sym))
             /\ all_scopes' = DeclareUnresolvedResult(name, sym)
             /\ last' = Done("visit_variable_declaration", name,
                             ~symbol_exists_current_scope(all_scopes, name), 0)
             /\ UNCHANGED <<scope_name_to_id, next_scope_id, building_scope_level,
                            active_scope_stack>>

\* The graph after declare_symbol(ParamName, PARAMETER, ...) in the function
\* scope that was just entered (the last scope of S).
ParameterResult(S, param_type_str, param_ir_type) ==
  IF symbol_exists_current_scope(S, ParamName) THEN S
  ELSE Insert(S, Len(S) - 1, ParamName,
              Symbol(ParamName, "PARAMETER", param_ir_type, param_type_str, Len(S) - 1,
                     "RESOLVED", NullExpr, <<>>))

visit_function_declaration(return_type, func_name, param_type_str) ==
  /\ Building
  /\ \E ord \in Orders(all_scopes) :
       LET return_type_str == IF return_type = "" THEN "void" ELSE return_type
           return_ir_type == string_to_ir_type(all_scopes, ord, return_type_str)
           declared == DeclareResult(func_name,
                         Symbol(func_name, "FUNCTION", return_ir_type, return_type_str,
                                building_scope_level, "RESOLVED", NullExpr, <<>>))
           entered == Append(declared, Scope(<<func_name>>, building_scope_level))
           index == [n \in (DOMAIN scope_name_to_id) \cup {<<func_name>>} |->
                       IF n = <<func_name>> THEN next_scope_id ELSE scope_name_to_id[n]]
           param_ir_type ==
             string_to_ir_type(entered, [i \in 1 .. Len(entered) |->
                                           IF i = Len(entered) THEN <<>> ELSE ord[i]],
                               param_type_str)
           final == IF param_type_str = "" THEN entered
                    ELSE ParameterResult(entered, param_type_str, param_ir_type)
       IN IF return_ir_type = Throw
          THEN ThrowFrom(func_name, all_scopes, scope_name_to_id, next_scope_id,
                         building_scope_level)
          ELSE /\ WithinBounds(final)
               /\ IF param_type_str # "" /\ param_ir_type = Throw
                  THEN ThrowFrom(func_name, entered, index, next_scope_id + 1,
                                 next_scope_id)
                  ELSE /\ all_scopes' = final
                       /\ scope_name_to_id' = index
                       /\ next_scope_id' = next_scope_id + 1
                       /\ building_scope_level' = final[next_scope_id + 1].parent_scope_id
                       /\ last' = Done("visit_function_declaration", func_name,
                                       ~symbol_exists_current_scope(all_scopes, func_name),
                                       next_scope_id)
                       /\ UNCHANGED active_scope_stack

\* build_from_ast returned: every block is closed, the resolve phase runs.
build_resolve_phase ==
  /\ Building
  /\ building_scope_level = 0
  /\ call_resolve_all_types

NextBuild ==
  \/ build_from_ast /\ IRBuilderIdle
  \/ visit_block_statement_enter /\ IRBuilderIdle
  \/ visit_block_statement_exit /\ IRBuilderIdle
  \/ \E type_str \in TypeStrs : \E name \in Names : \E e \in InitExprs :
       visit_variable_declaration(type_str, name, e) /\ IRBuilderIdle
  \/ \E return_type \in TypeStrs : \E name \in Names : \E param \in TypeStrs :
       visit_function_declaration(return_type, name, param) /\ IRBuilderIdle
  \/ build_resolve_phase /\ IRBuilderIdle

SpecBuild == Init /\ [][NextBuild]_vars

(***************************************************************************)
(* SpecTypes: type declarations.  The builder visits class, interface and  *)
(* enum declaration nodes, the fields and member functions of an open type *)
(* declaration (the k-th field declared in a scope is named FieldNames[k], *)
(* so the names tell the declaration order), and top-level variables;      *)
(* a client declares a Class symbol directly through declare_symbol and    *)
(* asks string_to_ir_type for the IR type of a type name.                  *)
(***************************************************************************)
MaxTypeSymbols == 4

MaxTypeScopes == 4

TypesWithinBounds(S) == Len(S) <= MaxTypeScopes /\ SymbolCount(S) <= MaxTypeSymbols

\* AST_DECL_IMPL(Node, Base): the base type of each declaration node type.
BaseType ==
  [ DeclarationNode |-> "StatementNode",
    ParameterNode |-> "DeclarationNode",
    VariableDeclarationNode |-> "DeclarationNode",
    MemberDeclarationNode |-> "DeclarationNode",
    FieldDeclarationNode |-> "MemberDeclarationNode",
    GenericParameterNode |-> "DeclarationNode",
    FunctionDeclarationNode |-> "MemberDeclarationNode",
    TypeDeclarationNode |-> "DeclarationNode",
    ClassDeclarationNode |-> "TypeDeclarationNode",
    StructDeclarationNode |-> "TypeDeclarationNode",
    InterfaceDeclarationNode |-> "TypeDeclarationNode",
    EnumDeclarationNode |-> "TypeDeclarationNode",
    NamespaceDeclarationNode |-> "DeclarationNode" ]

RECURSIVE IsA(_, _)

\* node->as<T>() != nullptr: the node's type is T or derives from T (its
\* type id lies in the id range of T and its descendants).
IsA(node_type, T) ==
  \/ node_type = T
  \/ /\ node_type \in DOMAIN BaseType
     /\ IsA(BaseType[node_type], T)

\* The handler that visit_declaration reaches for a node of type node_type:
\* the first branch of its if / else-if chain whose cast succeeds.
Dispatch(node_type) ==
  IF IsA(node_type, "TypeDeclarationNode") THEN "visit_type_declaration"
  ELSE IF IsA(node_type, "InterfaceDeclarationNode") THEN "visit_interface_declaration"
  ELSE IF IsA(node_type, "EnumDeclarationNode") THEN "visit_enum_declaration"
  ELSE IF IsA(node_type, "FunctionDeclarationNode") THEN "visit_function_declaration"
  ELSE IF IsA(node_type, "VariableDeclarationNode") THEN "visit_variable_declaration"
  ELSE IF IsA(node_type, "NamespaceDeclarationNode") THEN "visit_namespace_declaration"
  ELSE "none"

TypeNodeTypes == {"ClassDeclarationNode", "InterfaceDeclarationNode", "EnumDeclarationNode"}

TypeDeclNames == {"T", "E"}

CaseNames == <<"c1", "c2">>

\* What each type handler passes to declare_symbol for the type itself.
TypeSymbolOf(handler) ==
  CASE handler = "visit_type_declaration" ->
         [type |-> "CLASS", data_type |-> IRType("ptr"), type_name |-> "type"]
    [] handler = "visit_interface_declaration" ->
         [type |-> "CLASS", data_type |-> IRType("ptr"), type_name |-> "interface"]
    [] handler = "visit_enum_declaration" ->
         [type |-> "ENUM", data_type |-> IRType("i32"), type_name |-> "enum"]

RECURSIVE DeclareCases(_, _, _)

\* declare_symbol(case_name, VARIABLE, i32, "enum case") for cases k .. n in
\* the enum's scope (the last scope of S).
DeclareCases(S, k, n) ==
  IF k > n THEN S
  ELSE DeclareCases(
         IF symbol_exists_current_scope(S, CaseNames[k]) THEN S
         ELSE Insert(S, Len(S) - 1, CaseNames[k],
                     Symbol(CaseNames[k], "VARIABLE", IRType("i32"), "enum case",
                            Len(S) - 1, "RESOLVED", NullExpr, <<>>)),
         k + 1, n)

\* visit_declaration on a type declaration node: the handler declares the
\* type's symbol and enters its scope.  visit_type_declaration and
\* visit_interface_declaration then wait for the members (separate steps,
\* closed by visit_type_declaration_end); visit_enum_declaration declares
\* the cases and leaves the scope at once.
visit_declaration(node_type, name, cases) ==
  LET handler == Dispatch(node_type)
      d == TypeSymbolOf(handler)
      declared == DeclareResult(name, Symbol(name, d.type, d.data_type, d.type_name,
                                             building_scope_level, "RESOLVED",
                                             NullExpr, <<>>))
      entered == Append(declared, Scope(<<name>>, building_scope_level))
      final == IF handler = "visit_enum_declaration"
               THEN DeclareCases(entered, 1, cases) ELSE entered
  IN /\ Building
     /\ TypesWithinBounds(final)
     /\ all_scopes' = final
     /\ scope_name_to_id' =
          [n \in (DOMAIN scope_name_to_id) \cup {<<name>>} |->
             IF n = <<name>> THEN next_scope_id ELSE scope_name_to_id[n]]
     /\ next_scope_id' = next_scope_id + 1
     /\ building_scope_level' =
          IF handler = "visit_enum_declaration"
          THEN final[next_scope_id + 1].parent_scope_id ELSE next_scope_id
     /\ last' = [Done(handler, name, ~symbol_exists_current_scope(all_scopes, name),
                      next_scope_id) EXCEPT !.before = <<building_scope_level>>]
     /\ UNCHANGED active_scope_stack

\* The member loop of the type handler is over: symbol_table.exit_scope().
visit_type_declaration_end ==
  /\ Building
  /\ building_scope_level > 0
  /\ exit_scope

FieldTypes == {"i32", "f32"}

\* A variable declaration with an explicit primitive type: a field when the
\* cursor is in a type's scope.  It is the k-th symbol declared in its scope
\* and is named FieldNames[k].
visit_typed_variable(type_str) ==
  LET k == Cardinality(DOMAIN SymbolsOf(all_scopes, building_scope_level)) + 1
      name == FieldNames[k]
      sym == Symbol(name, "VARIABLE", IRType(type_str), type_str, building_scope_level,
                    "RESOLVED", NullExpr, <<>>)
  IN /\ Building
     /\ TypesWithinBounds(DeclareResult(name, sym))
     /\ all_scopes' = DeclareResult(name, sym)
     /\ last' = Done("visit_variable_declaration", name,
                     ~symbol_exists_current_scope(all_scopes, name), 0)
     /\ UNCHANGED <<scope_name_to_id, next_scope_id, building_scope_level,
                    active_scope_stack>>

IRPtrTo(pointee) == [tag |-> "ptr", to |-> pointee]

MemberFunctionNames == {"f1"}

ParamTypeStrs == {"", "i32"}

\* "" is an absent return type node; no type named Foo is declared.
ReturnTypeStrs == {"", "Foo"}

\* The type whose member loop is running: the name of the cursor's scope.
OwnerType == all_scopes[building_scope_level + 1].scope_name[1]

\* visit_type_declaration's member loop reaches a FunctionDeclarationNode.
visit_member_function_declaration(return_type, func_name, param_type_str) ==
  /\ Building
  /\ building_scope_level > 0
  /\ Len(all_scopes[building_scope_level + 1].scope_name) = 1
  /\ OwnerType \in TypeDeclNames
  /\ \E ord \in Orders(all_scopes) :
       LET owner_type == OwnerType
           return_type_str == IF return_type = "" THEN "void" ELSE return_type
           return_ir_type == string_to_ir_type(all_scopes, ord, return_type_str)
           declared == DeclareResult(func_name,
                         Symbol(func_name, "FUNCTION", return_ir_type, return_type_str,
                                building_scope_level, "RESOLVED", NullExpr, <<>>))
           member_func_scope_name == <<owner_type, func_name>>
           entered == Append(declared, Scope(member_func_scope_name, building_scope_level))
           index == [n \in (DOMAIN scope_name_to_id) \cup {member_func_scope_name} |->
                       IF n = member_func_scope_name THEN next_scope_id
                       ELSE scope_name_to_id[n]]
       IN IF return_ir_type = Throw
          THEN ThrowFrom(func_name, all_scopes, scope_name_to_id, next_scope_id,
                         building_scope_level)
          ELSE \E ord2 \in Orders(entered) :
                 LET owner_ir_type == string_to_ir_type(entered, ord2, owner_type)
                     with_this ==
                       IF symbol_exists_current_scope(entered, "this") THEN entered
                       ELSE Insert(entered, Len(entered) - 1, "this",
                                   Symbol("this", "PARAMETER", IRPtrTo(owner_ir_type),
                                          owner_type \o "*", Len(entered) - 1,
                                          "RESOLVED", NullExpr, <<>>))
                     final == IF param_type_str = "" THEN with_this
                              ELSE ParameterResult(with_this, param_type_str,
                                                   IRType(param_type_str))
                 IN IF owner_ir_type = Throw
                    THEN ThrowFrom(func_name, entered, index, next_scope_id + 1,
                                   next_scope_id)
                    ELSE /\ TypesWithinBounds(final)
                         /\ all_scopes' = final
                         /\ scope_name_to_id' = index
                         /\ next_scope_id' = next_scope_id + 1
                         /\ building_scope_level' =
                              final[next_scope_id + 1].parent_scope_id
                         /\ last' = [Done("visit_member_function_declaration", func_name,
                                          ~symbol_exists_current_scope(all_scopes, func_name),
                                          next_scope_id)
                                       EXCEPT !.before = <<building_scope_level>>]
                         /\ UNCHANGED active_scope_stack

\* declare_symbol(name, CLASS, ptr, "type") called directly.
declare_class_symbol(name) ==
  LET sym == Symbol(name, "CLASS", IRType("ptr"), "type", building_scope_level,
                    "RESOLVED", NullExpr, <<>>)
  IN /\ TypesWithinBounds(DeclareResult(name, sym))
     /\ all_scopes' = DeclareResult(name, sym)
     /\ last' = Done("declare_symbol", name,
                     ~symbol_exists_current_scope(all_scopes, name), 0)
     /\ UNCHANGED <<scope_name_to_id, next_scope_id, building_scope_level,
                    active_scope_stack>>

QueryTypeStrs == TypeDeclNames \cup {"Foo"}

\* string_to_ir_type(type_str) called directly.
call_string_to_ir_type(type_str) ==
  \E ord \in Orders(all_scopes) :
    /\ last' = [Done("string_to_ir_type", type_str,
                     string_to_ir_type(all_scopes, ord, type_str) # Throw, 0)
                  EXCEPT !.ir = string_to_ir_type(all_scopes, ord, type_str)]
    /\ UNCHANGED <<all_scopes, scope_name_to_id, next_scope_id, building_scope_level,
                   active_scope_stack>>

NextTypes ==
  \/ build_from_ast /\ IRBuilderIdle
  \/ \E node_type \in TypeNodeTypes : \E name \in TypeDeclNames :
       \E cases \in 0 .. Len(CaseNames) : visit_declaration(node_type, name, cases) /\ IRBuilderIdle
  \/ visit_type_declaration_end /\ IRBuilderIdle
  \/ \E type_str \in FieldTypes : visit_typed_variable(type_str) /\ IRBuilderIdle
  \/ \E return_type \in ReturnTypeStrs : \E func_name \in MemberFunctionNames :
       \E param_type_str \in ParamTypeStrs :
         visit_member_function_declaration(return_type, func_name, param_type_str) /\ IRBuilderIdle
  \/ \E name \in TypeDeclNames : declare_class_symbol(name) /\ IRBuilderIdle
  \/ \E type_str \in QueryTypeStrs : call_string_to_ir_type(type_str) /\ IRBuilderIdle

SpecTypes == Init /\ [][NextTypes]_vars

(***************************************************************************)
(* SpecIR: the IR builder.  commands_ is the command stream, next_id_ the  *)
(* counter of value ids, ignore_writes_ the analysis mode.  A command is   *)
(* recorded with its op and its result; a value is [id, type].  last.ir    *)
(* holds the value that the call returned, last.name the type that was     *)
(* handed to emit, last.ok tells that the call reached emit (has_terminator *)
(* puts its answer there).                                                 *)
(***************************************************************************)
MaxCommands == 3

MaxId == 4

ValueRef(id, type) == [id |-> id, type |-> type]

\* ValueRef::invalid(): no value; its id, 0 here, is no value id.
ValueRef_invalid == [id |-> 0, type |-> IRType("void")]

Command(op, result) == [op |-> op, result |-> result]

\* The values a caller holds: the results of the commands so far, the value
\* of the last call, and the invalid value.
Operands ==
  { commands_[i].result : i \in DOMAIN commands_ }
    \cup (IF "type" \in DOMAIN last.ir THEN {last.ir} ELSE {})
    \cup {ValueRef_invalid}

\* The counter left where it is: the next value gets the same id again.
NextIdAfter_Reused(type) == next_id_

\* next_id_ after ValueRef(next_id_++, type), which is not evaluated for Void.
NextIdAfter(type) == IF type = IRType("void") THEN next_id_ ELSE next_id_ + 1

\* emit and emit_with_data (the data are not recorded).
emit(api, op, type) ==
  IF ignore_writes_
  THEN /\ next_id_ < MaxId
       /\ next_id_' = next_id_ + 1
       /\ last' = [Done(api, type.tag, TRUE, 0) EXCEPT !.ir = ValueRef(-next_id_, type)]
       /\ UNCHANGED <<commands_, ignore_writes_>>
  ELSE LET result == IF type = IRType("void") THEN ValueRef_invalid
                     ELSE ValueRef(next_id_, type)
       IN /\ Len(commands_) < MaxCommands
          /\ NextIdAfter(type) <= MaxId
          /\ next_id_' = NextIdAfter(type)
          /\ commands_' = Append(commands_, Command(op, result))
          /\ last' = [Done(api, type.tag, TRUE, 0) EXCEPT !.ir = result]
          /\ UNCHANGED ignore_writes_

\* An operation that fails its check: it reports and returns (the invalid
\* value where it returns one).
Rejected(api) ==
  /\ last' = [Done(api, "", FALSE, 0) EXCEPT !.ir = ValueRef_invalid]
  /\ UNCHANGED <<commands_, next_id_, ignore_writes_>>

\* The analysis mode switched on or off.
set_ignore_writes(ignore) ==
  /\ ignore_writes_' = ignore
  /\ last' = Done("set_ignore_writes", "", TRUE, 0)
  /\ UNCHANGED <<commands_, next_id_>>

const_i32 == emit("const_i32", "Const", IRType("i32"))

const_bool == emit("const_bool", "Const", IRType("bool"))

add(lhs, rhs) ==
  IF lhs.type # rhs.type THEN Rejected("add") ELSE emit("add", "Add", lhs.type)

alloca(type) == emit("alloca", "Alloca", IRPtrTo(type))

store(value, ptr) ==
  IF ptr.type.tag # "ptr" THEN Rejected("store")
  ELSE emit("store", "Store", IRType("void"))

load(ptr, type) ==
  IF ptr.type.tag # "ptr" THEN Rejected("load") ELSE emit("load", "Load", type)

ret(value) == emit("ret", "Ret", IRType("void"))

ret_void == emit("ret_void", "RetVoid", IRType("void"))

label == emit("label", "Label", IRType("void"))

br == emit("br", "Br", IRType("void"))

br_cond(condition) ==
  IF condition.type.tag # "bool" THEN Rejected("br_cond")
  ELSE emit("br_cond", "BrCond", IRType("void"))

RECURSIVE LastInstructionTerminates_LabelsCount(_)

\* The scan without the skip: a trailing label decides.
LastInstructionTerminates_LabelsCount(i) ==
  IF i < 1 THEN FALSE
  ELSE commands_[i].op \in {"Ret", "RetVoid", "Br", "BrCond"}

RECURSIVE LastInstructionTerminates(_)

\* for (i = size - 1; i >= 0; --i): skip labels, decide on the first other
\* command (positions are 1-based here).
LastInstructionTerminates(i) ==
  IF i < 1 THEN FALSE
  ELSE IF commands_[i].op = "Label" THEN LastInstructionTerminates(i - 1)
  ELSE commands_[i].op \in {"Ret", "RetVoid", "Br", "BrCond"}

has_terminator ==
  /\ last' = Done("has_terminator", "",
                  IF commands_ = <<>> THEN FALSE
                  ELSE LastInstructionTerminates(Len(commands_)), 0)
  /\ UNCHANGED <<commands_, next_id_, ignore_writes_>>

NextIR ==
  \/ \E ignore \in BOOLEAN : set_ignore_writes(ignore) /\ SymbolTableIdle
  \/ const_i32 /\ SymbolTableIdle
  \/ const_bool /\ SymbolTableIdle
  \/ \E lhs \in Operands : \E rhs \in Operands : add(lhs, rhs) /\ SymbolTableIdle
  \/ alloca(IRType("i32")) /\ SymbolTableIdle
  \/ \E value \in Operands : \E ptr \in Operands : store(value, ptr) /\ SymbolTableIdle
  \/ \E ptr \in Operands : \E type \in {IRType("i32"), IRType("void")} : load(ptr, type) /\ SymbolTableIdle
  \/ \E value \in Operands : ret(value) /\ SymbolTableIdle
  \/ ret_void /\ SymbolTableIdle
  \/ label /\ SymbolTableIdle
  \/ br /\ SymbolTableIdle
  \/ \E condition \in Operands : br_cond(condition) /\ SymbolTableIdle
  \/ has_terminator /\ SymbolTableIdle

SpecIR == Init /\ [][NextIR]_vars

(***************************************************************************)
(* SpecNest: one call of build_from_ast on a whole compilation unit.  The  *)
(* statement visitors recurse over the tree, so the builder is an operator *)
(* on the table B = [S, index, next, cursor] (scopes, name index,          *)
(* next_scope_id, building_scope_level); the variables of the unit are     *)
(* inferred from an integer literal and functions return void, so no type  *)
(* name is looked up.                                                      *)
(***************************************************************************)
BlockS(statements) == [k |-> "BlockStatementNode", v |-> "", kids |-> statements]

IfS(branches) == [k |-> "IfStatementNode", v |-> "", kids |-> branches]

WhileS(body) == [k |-> "WhileStatementNode", v |-> "", kids |-> <<body>>]

ForS(parts) == [k |-> "ForStatementNode", v |-> "", kids |-> parts]

VarS(name) == [k |-> "VariableDeclarationNode", v |-> name, kids |-> <<>>]

FuncS(name, statements) ==
  [k |-> "FunctionDeclarationNode", v |-> name, kids |-> statements]

FunctionName == "f"

Stmt0 == { VarS(n) : n \in Names } \cup { BlockS(<<>>) }

\* The statements built from one or two statements of X (the second of Y).
Compound(X, Y) ==
  { BlockS(<<s>>) : s \in X } \cup { BlockS(<<s, t>>) : s \in X, t \in Y }
    \cup { IfS(<<s>>) : s \in X } \cup { IfS(<<s, t>>) : s \in X, t \in Y }
    \cup { WhileS(s) : s \in X }
    \cup { ForS(<<s>>) : s \in X } \cup { ForS(<<VarS("a"), s>>) : s \in X }

Stmt1 == Stmt0 \cup Compound(Stmt0, Stmt0)

Stmt2 == Stmt1 \cup Compound(Stmt1, {VarS("b")})

\* root->statements: one statement or function, or a variable and then one.
CompilationUnits ==
  LET items == Stmt2 \cup { FuncS(FunctionName, <<s>>) : s \in Stmt1 }
                     \cup { FuncS(FunctionName, <<s, VarS("b")>>) : s \in Stmt1 }
  IN { <<i>> : i \in items } \cup { <<VarS("a"), i>> : i \in items }

Cleared ==
  [S |-> <<Scope(GlobalName, -1)>>, index |-> [n \in {GlobalName} |-> 0],
   next |-> 1, cursor |-> 0]

\* enter_named_scope(scope_name) on B.
EnterIn(B, scope_name) ==
  [S |-> Append(B.S, Scope(scope_name, B.cursor)),
   index |-> [n \in (DOMAIN B.index) \cup {scope_name} |->
                IF n = scope_name THEN B.next ELSE B.index[n]],
   next |-> B.next + 1,
   cursor |-> B.next]

\* A scope that an exit leaves open: the cursor stays where it is.
ExitIn_Stays(B) == B

\* exit_scope() on B.
ExitIn(B) ==
  IF B.cursor > 0 THEN [B EXCEPT !.cursor = B.S[B.cursor + 1].parent_scope_id] ELSE B

\* declare_unresolved_symbol(name, VARIABLE, initializer) on B.
DeclareUnresolvedIn(B, name, initializer) ==
  IF symbol_exists_current_scope(B.S, name) THEN B
  ELSE [B EXCEPT !.S = Insert(B.S, B.cursor, name,
                              Symbol(name, "VARIABLE", IRType("i32"), "unresolved",
                                     B.cursor, "UNRESOLVED", initializer,
                                     extract_dependencies(initializer)))]

\* declare_symbol(name, FUNCTION, void, "void") on B.
DeclareFunctionIn(B, name) ==
  IF symbol_exists_current_scope(B.S, name) THEN B
  ELSE [B EXCEPT !.S = Insert(B.S, B.cursor, name,
                              Symbol(name, "FUNCTION", IRType("void"), "void",
                                     B.cursor, "RESOLVED", NullExpr, <<>>))]

RECURSIVE visit_statement(_, _)
RECURSIVE VisitStatements(_, _, _)

\* for (i ...) visit_statement(statements[i]), from position i.
VisitStatements(B, statements, i) ==
  IF i > Len(statements) THEN B
  ELSE VisitStatements(visit_statement(B, statements[i]), statements, i + 1)

visit_block_statement(B, node) ==
  ExitIn(VisitStatements(EnterIn(B, AnonName(B.next)), node.kids, 1))

visit_if_statement(B, node) == VisitStatements(B, node.kids, 1)

visit_while_statement(B, node) == visit_statement(B, node.kids[1])

visit_for_statement(B, node) ==
  ExitIn(VisitStatements(EnterIn(B, AnonName(B.next)), node.kids, 1))

visit_statement(B, node) ==
  IF IsA(node.k, "BlockStatementNode") THEN visit_block_statement(B, node)
  ELSE IF IsA(node.k, "VariableDeclarationNode")
       THEN DeclareUnresolvedIn(B, node.v, Lit("Integer"))
  ELSE IF IsA(node.k, "IfStatementNode") THEN visit_if_statement(B, node)
  ELSE IF IsA(node.k, "WhileStatementNode") THEN visit_while_statement(B, node)
  ELSE IF IsA(node.k, "ForStatementNode") THEN visit_for_statement(B, node)
  ELSE B

\* visit_declaration on a function or variable declaration; the function's
\* body statements are visited in the function's scope.
VisitDeclarationIn(B, node) ==
  IF Dispatch(node.k) = "visit_function_declaration"
  THEN ExitIn(VisitStatements(EnterIn(DeclareFunctionIn(B, node.v), <<node.v>>),
                              node.kids, 1))
  ELSE IF Dispatch(node.k) = "visit_variable_declaration"
       THEN DeclareUnresolvedIn(B, node.v, Lit("Integer"))
  ELSE B

RECURSIVE BuildFrom(_, _, _)

\* The loop of build_from_ast over root->statements, from position i.
BuildFrom(B, root, i) ==
  IF i > Len(root) THEN B
  ELSE BuildFrom(IF IsA(root[i].k, "DeclarationNode")
                 THEN VisitDeclarationIn(B, root[i])
                 ELSE visit_statement(B, root[i]),
                 root, i + 1)

\* build_from_ast(root) from any state of the table; last.before holds the
\* unit that was built.
build_unit(root) ==
  LET B == BuildFrom(Cleared, root, 1)
  IN /\ all_scopes' = B.S
     /\ scope_name_to_id' = B.index
     /\ next_scope_id' = B.next
     /\ building_scope_level' = B.cursor
     /\ active_scope_stack' = <<0>>
     /\ last' = [Done("build_from_ast", "", TRUE, 0) EXCEPT !.before = <<root>>]

NextNest == \E root \in CompilationUnits : build_unit(root) /\ IRBuilderIdle

SpecNest == Init /\ [][NextNest]_vars


(***************************************************************************)
(* Properties.                                                             *)
(***************************************************************************)
DeclareOps == {"declare_symbol", "declare_unresolved_symbol"}

\* C1: declaring a name that the build-cursor scope already holds returns
\* false and leaves the graph, hence the symbol stored under that name,
\* unchanged.
C1_DuplicateRejected ==
  [][\A n \in Names :
       (/\ last'.op \in DeclareOps
        /\ last'.name = n
        /\ Has(all_scopes, building_scope_level, n))
       => (~last'.ok /\ all_scopes' = all_scopes)]_vars

\* C2: declare_symbol of a name that the build-cursor scope does not hold
\* returns true and stores the name in the build-cursor scope, whatever the
\* other scopes hold.
C2_UniquePerScopeOnly ==
  [][\A n \in Names :
       (/\ last'.op = "declare_symbol"
        /\ last'.name = n
        /\ ~Has(all_scopes, building_scope_level, n))
       => (last'.ok /\ Has(all_scopes', building_scope_level, n))]_vars


(***************************************************************************)
(* What the resolver is specified to achieve, stated on the graph alone:   *)
(* a dependency name of a symbol of scope id denotes the symbol that the   *)
(* parent chain of scope id shows under that name.                         *)
(***************************************************************************)
StateOf(S, id, n) == SymbolsOf(S, id)[n].resolution_state

Nodes(S) == { <<id, n>> : id \in ScopeIds(S), n \in Names } \cap
            { x \in ScopeIds(S) \X Names : Has(S, x[1], x[2]) }

Unresolved(S) == { x \in Nodes(S) : StateOf(S, x[1], x[2]) = "UNRESOLVED" }

\* The symbols the dependency list of node x denotes; Missing for a name
\* that no scope of the parent chain holds.
Missing == <<-1, "">>

DepTargets(S, x) ==
  LET deps == SymbolsOf(S, x[1])[x[2]].dependencies
  IN { LET t == lookup_symbol_in_context(S, deps[i], x[1])
       IN IF t = nullptr THEN Missing ELSE <<t.scope_level, t.name>> :
       i \in 1 .. Len(deps) }

RECURSIVE Inferable(_, _, _)

\* x is resolved, or has an initializer all of whose dependencies denote
\* inferable symbols, at most fuel declarations away.
Inferable(S, x, fuel) ==
  IF StateOf(S, x[1], x[2]) = "RESOLVED" THEN TRUE
  ELSE /\ fuel > 0
       /\ SymbolsOf(S, x[1])[x[2]].initializer_expression # NullExpr
       /\ \A t \in DepTargets(S, x) : t # Missing /\ Inferable(S, t, fuel - 1)

AllInferable(S) == \A x \in Nodes(S) : Inferable(S, x, SymbolCount(S))

\* C3: if every unresolved symbol has an initializer that is inferable from
\* literals and from the symbols visible along its declaring scope's parent
\* chain, resolve_all_types returns true and leaves no symbol unresolved,
\* also when the same name is an inferred variable of several scopes.
C3_ResolvesEveryInferable ==
  [][(last'.op = "resolve_all_types" /\ Unresolved(all_scopes) # {}
        /\ AllInferable(all_scopes))
     => (last'.ok /\ \A x \in Nodes(all_scopes') :
                       StateOf(all_scopes', x[1], x[2]) = "RESOLVED")]_vars

\* C4: whenever resolve_all_types returns true, no symbol of the graph is
\* Unresolved or Resolving.
C4_SuccessMeansAllResolved ==
  (last.op = "resolve_all_types" /\ last.ok)
  => \A x \in Nodes(all_scopes) : StateOf(all_scopes, x[1], x[2]) = "RESOLVED"

\* A call that returned true after inferring the type of a variable.
C4_Witness ==
  /\ last.op = "resolve_all_types"
  /\ last.ok
  /\ \E x \in Nodes(all_scopes) :
       /\ SymbolsOf(all_scopes, x[1])[x[2]].initializer_expression # NullExpr
       /\ SymbolsOf(all_scopes, x[1])[x[2]].dependencies # <<>>
       /\ StateOf(all_scopes, x[1], x[2]) = "RESOLVED"


RECURSIVE ReachableFrom(_, _, _)

\* The unresolved symbols that x depends on, through at most fuel
\* dependency lists of unresolved symbols.
ReachableFrom(S, x, fuel) ==
  IF fuel = 0 THEN {}
  ELSE LET direct == DepTargets(S, x) \cap Unresolved(S)
       IN direct \cup UNION { ReachableFrom(S, t, fuel - 1) : t \in direct }

OnCycle(S) == { x \in Unresolved(S) : x \in ReachableFrom(S, x, SymbolCount(S)) }

\* C5: when inferred variables depend on each other cyclically,
\* resolve_all_types returns false and every symbol of the cycle is
\* Unresolved when it returns.
C5_CycleStaysUnresolved ==
  [][(last'.op = "resolve_all_types" /\ OnCycle(all_scopes) # {})
     => (~last'.ok /\ \A x \in OnCycle(all_scopes) :
                        StateOf(all_scopes', x[1], x[2]) = "UNRESOLVED")]_vars

RECURSIVE BottomsOut(_, _, _)

\* Unresolved x has an initializer whose dependencies all denote unresolved
\* symbols of x's own scope that bottom out in turn; an initializer without
\* dependencies is a literal.
BottomsOut(S, x, fuel) ==
  /\ fuel > 0
  /\ SymbolsOf(S, x[1])[x[2]].initializer_expression # NullExpr
  /\ \A t \in DepTargets(S, x) :
       t \in Unresolved(S) /\ t[1] = x[1] /\ BottomsOut(S, t, fuel - 1)

RECURSIVE LiteralOf(_, _, _)

\* The type of the literal that expression e of scope id rests on.
LiteralOf(S, id, e) ==
  CASE e.k = "lit" -> LiteralType(e.v)
    [] e.k = "id" -> LiteralOf(S, id, SymbolsOf(S, id)[e.v].initializer_expression)
    [] e.k = "bin" -> LiteralOf(S, id, e.kids[1])

ForwardReferences(S) ==
  /\ Unresolved(S) # {}
  /\ \A x, y \in Unresolved(S) : x[1] = y[1]
  /\ \A x \in Unresolved(S) : BottomsOut(S, x, SymbolCount(S))

\* C6: inferred variables of one scope whose dependencies are acyclic and
\* bottom out in literals are all resolved to the literal's type, in at most
\* two passes, and resolve_all_types returns true.
C6_ForwardReferencesResolve ==
  [][(last'.op = "resolve_all_types" /\ ForwardReferences(all_scopes))
     => (/\ last'.ok
         /\ last'.iters <= 2
         /\ \A x \in Unresolved(all_scopes) :
              /\ StateOf(all_scopes', x[1], x[2]) = "RESOLVED"
              /\ SymbolsOf(all_scopes', x[1])[x[2]].type_name =
                   LiteralOf(all_scopes, x[1],
                             SymbolsOf(all_scopes, x[1])[x[2]].initializer_expression))]_vars


(***************************************************************************)
(* Navigation and lookup properties (SpecNav).                             *)
(***************************************************************************)
TopName == all_scopes[get_current_scope_id + 1].scope_name

\* The scope that the name index gives for the owner type of the
\* member-function scope on top of the stack.
OwnerScopeId == find_scope_by_name(<<TopName[1]>>)

FallbackApplies(n) ==
  /\ Len(TopName) > 1
  /\ ~Has(all_scopes, get_current_scope_id, n)
  /\ OwnerScopeId # -1
  /\ Has(all_scopes, OwnerScopeId, n)
  /\ SymbolsOf(all_scopes, OwnerScopeId)[n].type = "VARIABLE"

\* C7: unless the member-function fallback applies, lookup_symbol(name)
\* returns what lookup_symbol_in_context(name, get_current_scope_id())
\* returns, the first symbol along the current scope's parent chain.
C7_LookupFollowsParentChain ==
  \A n \in Names :
    ~FallbackApplies(n)
    => lookup_symbol(all_scopes, n)
         = lookup_symbol_in_context(all_scopes, n, get_current_scope_id)

\* C8: with a scope T::f on top of the stack that does not hold name, and a
\* Variable under name in the scope of T, lookup_symbol(name) returns that
\* field of T, also when a lower scope of the stack holds name.
C8_MemberFallbackWins ==
  \A n \in Names :
    FallbackApplies(n)
    => lookup_symbol(all_scopes, n) = SymbolsOf(all_scopes, OwnerScopeId)[n]

\* A field of T looked up from T::f while the global scope, lower on the
\* stack, holds another symbol of the same name.
C8_Witness ==
  \E n \in Names :
    /\ FallbackApplies(n)
    /\ active_scope_stack[1] # OwnerScopeId
    /\ Has(all_scopes, active_scope_stack[1], n)

\* C9: the navigation stack is never empty, its bottom is the global scope
\* and every element is the id of a scope of the graph.
C9_NavigationStackValid ==
  /\ Len(active_scope_stack) >= 1
  /\ active_scope_stack[1] = 0
  /\ \A i \in 1 .. Len(active_scope_stack) :
       active_scope_stack[i] \in ScopeIds(all_scopes)

\* A push that failed on a stack whose top is a nested scope.
C9_Witness ==
  /\ last.op = "push_scope"
  /\ ~last.ok
  /\ Len(active_scope_stack) > 1
  /\ active_scope_stack[Len(active_scope_stack)] # 0

\* The stack that the push_scope recorded in a pop_scope record returned on.
StackAfterPush ==
  IF last.id # -1 THEN Append(last.before, last.id) ELSE last.before

\* C10 as claimed: push_scope(x) directly followed by pop_scope() leaves the
\* stack as it was before the push, for every x, if the stack had more than
\* one element after the push.
C10_PushPopRestores ==
  (last.op = "pop_scope" /\ last.before # <<>> /\ Len(StackAfterPush) > 1)
  => active_scope_stack = last.before

\* C10 as amended: a push_scope that succeeded, directly followed by
\* pop_scope(), leaves the stack as it was before the push; after a
\* push_scope that failed, pop_scope() removes the top of that stack unless
\* it is the only element.
C10_SuccessfulPushPopRestores ==
  (last.op = "pop_scope" /\ last.before # <<>>)
  => active_scope_stack =
       IF last.id # -1 \/ Len(last.before) = 1 THEN last.before
       ELSE SubSeq(last.before, 1, Len(last.before) - 1)

\* A pop_scope directly after a push_scope that pushed a nested scope.
C10_Witness ==
  /\ last.op = "pop_scope"
  /\ last.before # <<>>
  /\ last.id > 0


(***************************************************************************)
(* Navigation results, cursor discipline and graph structure.              *)
(***************************************************************************)
\* C11: push_scope with a name that the scope-name index does not hold, or
\* with an id outside 0 .. size - 1, returns -1 and leaves the navigation
\* stack unchanged; with a known name or a valid id it appends exactly that
\* scope id and returns it.
C11_PushOutcome ==
  [][/\ \A n \in PushNames :
          push_scope_name(n)
          => IF n \in DOMAIN scope_name_to_id
             THEN /\ last'.id = scope_name_to_id[n]
                  /\ active_scope_stack' = Append(active_scope_stack, scope_name_to_id[n])
             ELSE last'.id = -1 /\ active_scope_stack' = active_scope_stack
     /\ \A i \in -1 .. MaxScopes :
          push_scope_id(i)
          => IF i \in ScopeIds(all_scopes)
             THEN last'.id = i /\ active_scope_stack' = Append(active_scope_stack, i)
             ELSE last'.id = -1 /\ active_scope_stack' = active_scope_stack]_vars

\* A push that returned -1 on a graph with nested scopes, stack untouched.
C11_Witness ==
  /\ last.op = "push_scope"
  /\ last.id = -1
  /\ active_scope_stack = last.before
  /\ Len(all_scopes) > 1

\* C12: an enter_scope or enter_named_scope directly followed by exit_scope
\* leaves the build cursor where it was before the enter call, and
\* exit_scope with the cursor at the global scope changes nothing.
C12_EnterExitRestoresCursor ==
  [][/\ (last'.op = "exit_scope" /\ last'.before # <<>>)
        => building_scope_level' = last'.before[1]
     /\ (last'.op = "exit_scope" /\ building_scope_level = 0)
        => UNCHANGED <<all_scopes, scope_name_to_id, next_scope_id,
                       building_scope_level, active_scope_stack>>]_vars

\* exit_scope directly after entering a scope from a nested scope.
C12_Witness ==
  /\ last.op = "exit_scope"
  /\ last.before # <<>>
  /\ last.before[1] > 0
  /\ building_scope_level = last.before[1]

RECURSIVE ReachesGlobal(_, _, _)

\* Following parent links from scope id reaches scope 0 within fuel steps.
ReachesGlobal(S, id, fuel) ==
  \/ id = 0
  \/ /\ fuel > 0
     /\ id \in ScopeIds(S)
     /\ ReachesGlobal(S, S[id + 1].parent_scope_id, fuel - 1)

\* C13: scope 0 is the only scope whose parent is -1; the parent of every
\* other scope is a scope with a smaller id, so the parent links lead from
\* every scope to the global scope.
C13_ScopeGraphWellFormed ==
  /\ all_scopes[1].parent_scope_id = -1
  /\ \A id \in ScopeIds(all_scopes) \ {0} :
       /\ all_scopes[id + 1].parent_scope_id >= 0
       /\ all_scopes[id + 1].parent_scope_id < id
  /\ \A id \in ScopeIds(all_scopes) : ReachesGlobal(all_scopes, id, Len(all_scopes))

\* A chain of two nested scopes next to which the cursor went back to the root.
C13_Witness ==
  /\ Len(all_scopes) = 3
  /\ all_scopes[3].parent_scope_id = 1
  /\ building_scope_level = 0

\* C14: every symbol stored in the map of scope s has scope_level s and is
\* stored under its own name.
C14_SymbolsKnowTheirScope ==
  \A id \in ScopeIds(all_scopes) : \A n \in DOMAIN SymbolsOf(all_scopes, id) :
    /\ SymbolsOf(all_scopes, id)[n].scope_level = id
    /\ SymbolsOf(all_scopes, id)[n].name = n

\* An explicit and an inferred symbol in two different nested scopes.
C14_Witness ==
  /\ Len(all_scopes) = 3
  /\ \E n, m \in Names :
       /\ Has(all_scopes, 1, n)
       /\ Has(all_scopes, 2, m)
       /\ SymbolsOf(all_scopes, 1)[n].initializer_expression = NullExpr
       /\ SymbolsOf(all_scopes, 1)[n].type = "FUNCTION"
       /\ SymbolsOf(all_scopes, 2)[m].initializer_expression # NullExpr


(***************************************************************************)
(* Resolver properties: idempotence, monotonicity, results, termination.   *)
(***************************************************************************)
\* C15: a resolve_all_types call that directly follows a resolve_all_types
\* call that returned true also returns true and leaves every symbol, hence
\* its state, type_name and data_type, unchanged.
C15_ResolveIdempotent ==
  [][(last.op = "resolve_all_types" /\ last.ok /\ last'.op = "resolve_all_types")
     => (last'.ok /\ all_scopes' = all_scopes)]_vars

\* A second call directly after a call that inferred types in two passes.
C15_Witness ==
  /\ last.op = "resolve_all_types"
  /\ last.before = <<2>>
  /\ last.ok
  /\ \E x \in Nodes(all_scopes) :
       SymbolsOf(all_scopes, x[1])[x[2]].initializer_expression # NullExpr


ResolveOps == {"resolve_all_types", "resolve_symbol_type"}

ResolverTransitions ==
  { <<"UNRESOLVED", "RESOLVING">>, <<"RESOLVING", "RESOLVED">>,
    <<"RESOLVING", "UNRESOLVED">> }

\* C16: a resolve_symbol_type or resolve_all_types call leaves every symbol
\* that was Resolved before the call unchanged (state, type_name, data_type),
\* and the only state assignments the resolver makes during a call are
\* Unresolved -> Resolving, Resolving -> Resolved and Resolving -> Unresolved.
C16_MonotoneInference ==
  [][last'.op \in ResolveOps
     => (/\ \A x \in Nodes(all_scopes) :
              StateOf(all_scopes, x[1], x[2]) = "RESOLVED"
              => SymbolsOf(all_scopes', x[1])[x[2]] = SymbolsOf(all_scopes, x[1])[x[2]]
         /\ last'.tr \subseteq ResolverTransitions)]_vars

\* A call that resolved one variable and failed on another, next to an
\* explicitly typed symbol.
C16_Witness ==
  /\ last.op \in ResolveOps
  /\ last.tr = ResolverTransitions
  /\ \E x \in Nodes(all_scopes) :
       /\ SymbolsOf(all_scopes, x[1])[x[2]].initializer_expression = NullExpr
       /\ SymbolsOf(all_scopes, x[1])[x[2]].type_name = "bool"


AllSymbolsResolved(S) ==
  \A id \in ScopeIds(S) : \A n \in DOMAIN SymbolsOf(S, id) :
    SymbolsOf(S, id)[n].resolution_state = "RESOLVED"

\* C17: resolve_all_types returns false only if a symbol is still Unresolved
\* when it returns or a cycle was reported during the call; it returns true
\* whenever every symbol has become Resolved, however many passes that took.
C17_FalseMeansUnresolvedOrCycle ==
  (last.op = "resolve_all_types" /\ ~last.ok)
  => (AnyUnresolved(all_scopes) \/ last.cyc > 0)


\* C18: resolve_all_types returns after at least one and at most
\* max_iterations passes, and no resolver call enters a symbol that is
\* already marked Resolving, so the recursion over dependencies, cyclic or
\* not, ends.
C18_ResolverTerminates ==
  /\ last.op = "resolve_all_types" => last.iters \in 1 .. max_iterations
  /\ last.op \in ResolveOps =>
       \A t \in last.tr : t[1] = "RESOLVING" => t[2] # "RESOLVING"

\* A call that ran into a dependency cycle and used all the passes.
C18_Witness ==
  /\ last.op = "resolve_all_types"
  /\ last.iters = max_iterations
  /\ last.cyc > 0


InitOf(S, x) == SymbolsOf(S, x[1])[x[2]].initializer_expression

\* Unresolved x has dependencies, none of which names a symbol visible from
\* its declaring scope, and an initializer whose type does not rest on them.
OnlyMissingDependencies(S, x) ==
  /\ InitOf(S, x) # NullExpr
  /\ DepTargets(S, x) = {Missing}
  /\ infer_type_from_expression_in_context(S, InitOf(S, x), x[1]) # "unresolved"

\* C19: a dependency name with no symbol visible from the declaring scope of
\* X is skipped and does not make X fail: var x = 1 + y with y undeclared
\* is resolved to i32 by resolve_all_types.
C19_MissingDependencySkipped ==
  [][last'.op = "resolve_all_types"
     => \A x \in Unresolved(all_scopes) :
          OnlyMissingDependencies(all_scopes, x)
          => /\ StateOf(all_scopes', x[1], x[2]) = "RESOLVED"
             /\ SymbolsOf(all_scopes', x[1])[x[2]].type_name =
                  infer_type_from_expression_in_context(all_scopes, InitOf(all_scopes, x),
                                                        x[1])]_vars


(***************************************************************************)
(* Builder properties (SpecBuild).                                         *)
(***************************************************************************)
DeclarationVisits ==
  {"visit_variable_declaration", "visit_function_declaration", "runtime_error"}

\* C20: the visit of a declaration, also one that names an unknown type or
\* redeclares a name, leaves the builder building, so that it visits the
\* following declarations and build_symbol_table runs the resolve phase,
\* with the build cursor where it was before the declaration.
C20_BuildFailuresLocal ==
  [][(Building /\ last'.op \in DeclarationVisits)
     => (/\ last'.op \in BuilderOps
         /\ building_scope_level' = building_scope_level)]_vars


(***************************************************************************)
(* Frame of the resolve phase, the scope-name index, clear, diagnostics.   *)
(***************************************************************************)
\* The fields of a symbol that the resolver has no business changing.
Identity(sym) ==
  <<sym.name, sym.type, sym.scope_level, sym.initializer_expression, sym.dependencies>>

\* C23: resolve_all_types and resolve_symbol_type create and remove no scope
\* and no symbol, leave the build cursor, the navigation stack, the name
\* index and the id counter alone, and change no symbol's name, kind,
\* declaring scope, initializer or dependency list.
C23_ResolveFrame ==
  [][last'.op \in ResolveOps
     => (/\ Len(all_scopes') = Len(all_scopes)
         /\ \A id \in ScopeIds(all_scopes) :
              /\ all_scopes'[id + 1].scope_name = all_scopes[id + 1].scope_name
              /\ all_scopes'[id + 1].parent_scope_id = all_scopes[id + 1].parent_scope_id
              /\ DOMAIN SymbolsOf(all_scopes', id) = DOMAIN SymbolsOf(all_scopes, id)
              /\ \A n \in DOMAIN SymbolsOf(all_scopes, id) :
                   Identity(SymbolsOf(all_scopes', id)[n])
                     = Identity(SymbolsOf(all_scopes, id)[n])
         /\ UNCHANGED <<scope_name_to_id, next_scope_id, building_scope_level,
                        active_scope_stack>>)]_vars

\* A call that resolved a variable of a nested scope from its dependency.
C23_Witness ==
  /\ last.op \in ResolveOps
  /\ <<"RESOLVING", "RESOLVED">> \in last.tr
  /\ \E x \in Nodes(all_scopes) :
       /\ x[1] > 0
       /\ SymbolsOf(all_scopes, x[1])[x[2]].dependencies # <<>>
       /\ StateOf(all_scopes, x[1], x[2]) = "RESOLVED"

\* C24: enter_named_scope(name) appends a scope of that name and makes the
\* index entry of name the new scope's id, also when name had an entry: the
\* earlier scopes stay in the graph, and those of the same name are no
\* longer what find_scope_by_name and push_scope give.
C24_NamedScopeOverwritesIndex ==
  [][\A n \in NamedScopes :
       enter_named_scope(n)
       => (/\ Len(all_scopes') = Len(all_scopes) + 1
           /\ SubSeq(all_scopes', 1, Len(all_scopes)) = all_scopes
           /\ all_scopes'[Len(all_scopes')].scope_name = n
           /\ n \in DOMAIN scope_name_to_id'
           /\ scope_name_to_id'[n] = Len(all_scopes)
           /\ \A m \in DOMAIN scope_name_to_id :
                m # n => scope_name_to_id'[m] = scope_name_to_id[m])]_vars

\* Two scopes named T, the index giving the later one.
C24_Witness ==
  /\ Len(all_scopes) = 3
  /\ all_scopes[2].scope_name = <<"T">>
  /\ all_scopes[3].scope_name = <<"T">>
  /\ find_scope_by_name(<<"T">>) = 2

\* C25: enter_scope() leaves the scope-name index unchanged, so that
\* find_scope_by_name of the anonymous scope's name returns -1.
C25_AnonymousScopesNotIndexed ==
  [][last'.op = "enter_scope"
     => (/\ scope_name_to_id' = scope_name_to_id
         /\ all_scopes'[Len(all_scopes')].scope_name \notin DOMAIN scope_name_to_id')]_vars

\* C28: clear() leaves the table as the constructor does: one scope (global,
\* parent -1, no symbols), the index global -> 0, cursor 0, navigation
\* stack <<0>>, and 1 as the next scope id.
C28_ClearResets ==
  last.op = "clear"
  => (/\ all_scopes = <<[scope_name |-> GlobalName, parent_scope_id |-> -1,
                         symbols |-> <<>>]>>
      /\ DOMAIN scope_name_to_id = {GlobalName}
      /\ scope_name_to_id[GlobalName] = 0
      /\ building_scope_level = 0
      /\ active_scope_stack = <<0>>
      /\ next_scope_id = 1)

\* clear() called on a graph of three scopes.
C28_Witness ==
  /\ last.op = "clear"
  /\ last.before = <<3>>

\* The unresolved symbols form one dependency cycle: each symbol on a cycle
\* depends on every other one.
SingleCycle(S) ==
  /\ OnCycle(S) # {}
  /\ \A x, y \in OnCycle(S) : y \in ReachableFrom(S, x, SymbolCount(S))

\* C29: a resolve_all_types call on a graph with a single dependency cycle
\* emits exactly one "Circular dependency detected" diagnostic.
C29_CycleReportedOnce ==
  [][(last'.op = "resolve_all_types" /\ SingleCycle(all_scopes))
     => last'.cyc = 1]_vars

\* The first scope from the top of the navigation stack that holds name.
StackWalk(S, name) ==
  LET RECURSIVE walk(_)
      walk(i) ==
        IF i < 1 THEN nullptr
        ELSE IF Has(S, active_scope_stack[i], name)
             THEN SymbolsOf(S, active_scope_stack[i])[name]
             ELSE walk(i - 1)
  IN walk(Len(active_scope_stack))

RECURSIVE DeclaredFields(_, _, _)

\* The Variable symbols of scope scope_id in declaration order, from the
\* k-th field name on (SpecTypes names the k-th declared symbol of a scope
\* FieldNames[k]).
DeclaredFields(S, scope_id, k) ==
  IF k > Len(FieldNames) THEN <<>>
  ELSE IF /\ Has(S, scope_id, FieldNames[k])
          /\ SymbolsOf(S, scope_id)[FieldNames[k]].type = "VARIABLE"
       THEN <<[name |-> FieldNames[k],
               type |-> SymbolsOf(S, scope_id)[FieldNames[k]].data_type]>>
            \o DeclaredFields(S, scope_id, k + 1)
       ELSE DeclaredFields(S, scope_id, k + 1)

\* C21: the struct that string_to_ir_type returns for a Class symbol T lists
\* exactly the Variable symbols of T's scope, in the order in which they
\* were declared, whatever order the scope's symbol map iterates in.
C21_StructLayoutDeclarationOrder ==
  (last.op = "string_to_ir_type" /\ last.ir.tag = "struct")
    => last.ir.fields =
         DeclaredFields(all_scopes, find_scope_by_name(<<last.name>>), 1)

\* C22: for a name that is neither primitive nor an array, string_to_ir_type
\* returns a struct when the name looks up to a Class symbol, i32 when it
\* looks up to an Enum symbol, and throws otherwise; nothing else.
C22_ThreeOutcomes ==
  (/\ last.op = "string_to_ir_type"
   /\ last.name \notin ArrayTypeNames \cup PrimitiveTypeNames \cup {"string"})
    => LET symbol == lookup_symbol(all_scopes, last.name)
       IN IF symbol # nullptr /\ symbol.type = "CLASS" THEN last.ir.tag = "struct"
          ELSE IF symbol # nullptr /\ symbol.type = "ENUM" THEN last.ir = IRType("i32")
          ELSE last.ir = Throw

\* C26: visiting an enum declaration node runs the enum handler: it declares
\* an Enum symbol of type i32 in the current scope (unless the name is
\* rejected as a duplicate), creates the scope named after the enum, and
\* declares each case there as a Variable of type i32 with type_name
\* "enum case".
C26_EnumHandledByEnumHandler ==
  [][\A name \in TypeDeclNames : \A cases \in 0 .. Len(CaseNames) :
       visit_declaration("EnumDeclarationNode", name, cases)
         => /\ last'.op = "visit_enum_declaration"
            /\ last'.ok
                 => /\ Has(all_scopes', building_scope_level, name)
                    /\ SymbolsOf(all_scopes', building_scope_level)[name].type = "ENUM"
                    /\ SymbolsOf(all_scopes', building_scope_level)[name].data_type
                         = IRType("i32")
            /\ all_scopes'[last'.id + 1].scope_name = <<name>>
            /\ \A k \in 1 .. cases :
                 /\ Has(all_scopes', last'.id, CaseNames[k])
                 /\ SymbolsOf(all_scopes', last'.id)[CaseNames[k]].type = "VARIABLE"
                 /\ SymbolsOf(all_scopes', last'.id)[CaseNames[k]].type_name
                      = "enum case"]_vars

\* C27: when the builder has visited a member function func_name of type T,
\* T's scope holds a Function symbol func_name, and there is a scope named
\* T::func_name whose parent is T's scope and which holds a Parameter
\* symbol this with type_name T*.
C27_MemberFunctionScope ==
  [][\A return_type \in ReturnTypeStrs : \A func_name \in MemberFunctionNames :
       \A param_type_str \in ParamTypeStrs :
         (/\ visit_member_function_declaration(return_type, func_name, param_type_str)
          /\ last'.op = "visit_member_function_declaration")
           => /\ Has(all_scopes', building_scope_level, func_name)
              /\ SymbolsOf(all_scopes', building_scope_level)[func_name].type = "FUNCTION"
              /\ <<OwnerType, func_name>> \in DOMAIN scope_name_to_id'
              /\ LET id == scope_name_to_id'[<<OwnerType, func_name>>]
                 IN /\ all_scopes'[id + 1].parent_scope_id = building_scope_level
                    /\ Has(all_scopes', id, "this")
                    /\ SymbolsOf(all_scopes', id)["this"].type = "PARAMETER"
                    /\ SymbolsOf(all_scopes', id)["this"].type_name = OwnerType \o "*"]_vars

\* C32: a pass of resolve_all_types counts as progress only when a symbol
\* became Resolved in it, so a call runs at most one pass more than the
\* number of symbols that it resolved.
C32_PassesBoundedByProgress ==
  [][call_resolve_all_types
       => last'.iters <=
            1 + Cardinality({ x \in Nodes(all_scopes) :
                                /\ StateOf(all_scopes, x[1], x[2]) # "RESOLVED"
                                /\ StateOf(all_scopes', x[1], x[2]) = "RESOLVED" })]_vars

C34_UnresolvedHasInitializer ==
  \A x \in Unresolved(all_scopes) : InitOf(all_scopes, x) # NullExpr

(***************************************************************************)
(* Lexical nesting of a compilation unit.                                  *)
(***************************************************************************)
RECURSIVE LexicalScopes(_, _, _)
RECURSIVE LexicalList(_, _, _, _)

\* The scopes that the unit's text calls for, in the order of their opening
\* braces: L[i] tells the lexically enclosing scope of scope i - 1, whether
\* it is a function's scope, and the variables declared directly in it.
LexicalList(L, nodes, parent, i) ==
  IF i > Len(nodes) THEN L
  ELSE LexicalList(LexicalScopes(L, nodes[i], parent), nodes, parent, i + 1)

LexicalScopes(L, node, parent) ==
  IF node.k \in {"BlockStatementNode", "ForStatementNode", "FunctionDeclarationNode"}
  THEN LexicalList(Append(L, [parent |-> parent,
                              named |-> node.k = "FunctionDeclarationNode",
                              vars |-> {}]),
                   node.kids, Len(L), 1)
  ELSE IF node.k \in {"IfStatementNode", "WhileStatementNode"}
       THEN LexicalList(L, node.kids, parent, 1)
  ELSE [L EXCEPT ![parent + 1].vars = @ \cup {node.v}]

LexicalOf(root) ==
  LexicalList(<<[parent |-> -1, named |-> TRUE, vars |-> {}]>>, root, 0, 1)

\* C31: after build_from_ast the cursor is back at the global scope and the
\* scope graph mirrors the lexical nesting of the unit: one anonymous scope
\* for each block and each for statement, none for if and while, one named
\* scope for each function with its body's declarations directly in it, and
\* each scope's parent is the scope of the enclosing construct.
C31_ScopesMirrorNesting ==
  last.op = "build_from_ast"
    => LET L == LexicalOf(last.before[1])
       IN /\ building_scope_level = 0
          /\ Len(all_scopes) = Len(L)
          /\ \A i \in 2 .. Len(L) :
               /\ all_scopes[i].parent_scope_id = L[i].parent
               /\ all_scopes[i].scope_name =
                    IF L[i].named THEN <<FunctionName>> ELSE AnonName(i - 1)
               /\ DOMAIN all_scopes[i].symbols \subseteq L[i].vars

\* A function whose body holds a block that declares a variable, and then
\* declares a variable of its own.
C31_Witness ==
  /\ last.op = "build_from_ast"
  /\ last.before[1] = <<FuncS(FunctionName, <<BlockS(<<VarS("a")>>), VarS("b")>>)>>
  /\ Len(all_scopes) = 3
  /\ Has(all_scopes, 1, "b")
  /\ Has(all_scopes, 2, "a")
  /\ all_scopes[3].parent_scope_id = 1

\* C33: the result of a build operation does not depend on the navigation
\* stack: a declare call returns what the same call returns on the same
\* graph in the run whose navigation stack is [0], where the duplicate test
\* looks at the global scope.
C33_BuildIgnoresNavigation ==
  [][\A name \in Names : \A d \in DeclInputs :
       declare_symbol(name, d) => (last'.ok = ~Has(all_scopes, 0, name))]_vars

FieldSet(fields) == { fields[i] : i \in DOMAIN fields }

\* The member-function scopes T::f that hold a this parameter.
MemberFunctionScopes(S) ==
  { id \in ScopeIds(S) : Len(S[id + 1].scope_name) = 2 /\ Has(S, id, "this") }

\* C36: when the builder is back at the top level, the struct that the this
\* parameter of a member-function scope T::f points to has the fields that
\* string_to_ir_type(T) gives on the graph as it is now, whether T's fields
\* were declared before or after the member function.
C36_StoredTypesAgree ==
  (Building /\ building_scope_level = 0)
    => \A id \in MemberFunctionScopes(all_scopes) :
         \A ord \in Orders(all_scopes) :
           LET pointee == SymbolsOf(all_scopes, id)["this"].data_type.to
               now == string_to_ir_type(all_scopes, ord, all_scopes[id + 1].scope_name[1])
           IN /\ pointee.tag = "struct"
              /\ now.tag = "struct"
              /\ FieldSet(pointee.fields) = FieldSet(now.fields)

\* C37: for every member-function scope T::f, the scope that the name T
\* denotes in the index, which the member fallback of lookup_symbol and
\* the struct layout of string_to_ir_type(T) consult, is the parent scope of
\* T::f, also after another scope named T has been created.
C37_OwnerScopeIsParent ==
  \A id \in MemberFunctionScopes(all_scopes) :
    find_scope_by_name(<<all_scopes[id + 1].scope_name[1]>>)
      = all_scopes[id + 1].parent_scope_id

(***************************************************************************)
(* The IR builder.                                                         *)
(***************************************************************************)
EmitApis ==
  {"const_i32", "const_bool", "add", "alloca", "store", "load", "ret", "ret_void",
   "label", "br", "br_cond"}

\* C38: a command appended with a non-void type carries a positive result
\* id greater than the result ids of all earlier commands and takes one id
\* from the counter; a command appended with type void carries the invalid
\* result and takes no id; an emit in analysis mode appends nothing and
\* returns a negative id.
C38_ValueIds ==
  [][/\ commands_' # commands_
          => LET result == commands_'[Len(commands_')].result
             IN /\ Len(commands_') = Len(commands_) + 1
                /\ last'.name # "void"
                     => /\ result.id > 0
                        /\ \A i \in DOMAIN commands_ :
                             commands_[i].result # ValueRef_invalid
                               => result.id > commands_[i].result.id
                        /\ next_id_' > result.id
                /\ last'.name = "void"
                     => /\ result = ValueRef_invalid
                        /\ next_id_' = next_id_
     /\ (ignore_writes_ /\ last'.op \in EmitApis /\ last'.ok)
          => /\ commands_' = commands_
             /\ last'.ir.id < 0]_vars

\* Values emitted in normal mode, in analysis mode and in normal mode again:
\* the stream holds ids 1 and 3, with a void command between them.
C38_Witness ==
  /\ Len(commands_) = 3
  /\ commands_[1].result.id = 1
  /\ commands_[2].result = ValueRef_invalid
  /\ commands_[3].result.id = 3
  /\ next_id_ = 4

NonLabel(c) == c.op # "Label"

Terminators == {"Ret", "RetVoid", "Br", "BrCond"}

\* C39: has_terminator answers true exactly when the stream holds a command
\* that is not a Label and the last such command is Ret, RetVoid, Br or
\* BrCond; a rejected operation appends nothing.
C39_HasTerminator ==
  [][/\ last'.op = "has_terminator"
          => LET instructions == SelectSeq(commands_, NonLabel)
             IN last'.ok = /\ Len(instructions) > 0
                           /\ instructions[Len(instructions)].op \in Terminators
     /\ (last'.op \in EmitApis /\ ~last'.ok)
          => /\ commands_' = commands_
             /\ next_id_' = next_id_]_vars

\* A terminator followed by a label is still found, and a rejected operation
\* before the query did not change the stream.
C39_Witness ==
  /\ last.op = "has_terminator"
  /\ last.ok
  /\ Len(commands_) = 3
  /\ commands_[2].op \in Terminators
  /\ commands_[3].op = "Label"

\* An operation with a bad operand was rejected while the stream ended in a
\* terminator.
C39_RejectedWitness ==
  /\ last.op \in {"add", "store", "load", "br_cond"}
  /\ ~last.ok
  /\ Len(commands_) > 0
  /\ commands_[Len(commands_)].op \in Terminators

====
